---- MODULE Spec2Model ----
(***************************************************************************)
(* Verification model of libtextclassifier2: the span algebra (types.h),   *)
(* the span chunker (TextClassifier::ModelChunk), the conflict resolver    *)
(* (TextClassifier::ResolveConflicts), the cached feature matrix           *)
(* (CachedFeatures) and the public calls SuggestSelection / ClassifyText.  *)
(*                                                                         *)
(* Spans are pairs <<first, second>> (half open).  Scores and priority     *)
(* scores are floats in the code; the model draws them from small integer  *)
(* ranges, which keeps every comparison the code makes.                    *)
(***************************************************************************)
EXTENDS Integers, Sequences, FiniteSets, TLC

VARIABLES
  opts,        \* selection options of the loaded model (chunker)
  span_score,  \* selection model, bounds-sensitive: logit per token span
  click_score, \* selection model, click-context: score per (click, l, r)
  last,        \* the last call made and what it returned
  prev         \* the call made before it

vars == <<opts, span_score, click_score, last, prev>>

\* ------------------------------ bounds ---------------------------------
MaxTokens == 3
MaxSelectionSpan == 1
MaxSymmetry == 1
MaxScore == 1
MaxCodepoint == 2
MaxCandidates == 3
MaxPenalty == 2
MinPriority == 0 - MaxPenalty
MaxPriority == 0

kInvalidIndex == -1

NoCall == [kind |-> "none"]

\* ---------------------------- span algebra -----------------------------
Max(a, b) == IF a >= b THEN a ELSE b
Min(a, b) == IF a <= b THEN a ELSE b

TokenSpanSize(token_span) == token_span[2] - token_span[1]

SingleTokenSpan(token_index) == <<token_index, token_index + 1>>

IntersectTokenSpans(token_span1, token_span2) ==
  <<Max(token_span1[1], token_span2[1]), Min(token_span1[2], token_span2[2])>>

\* (variant) the span is expanded on its right only
ExpandTokenSpan_RightOnly(token_span, num_tokens_left, num_tokens_right) ==
  <<token_span[1], token_span[2] + num_tokens_right>>

ExpandTokenSpan(token_span, num_tokens_left, num_tokens_right) ==
  <<token_span[1] - num_tokens_left, token_span[2] + num_tokens_right>>

\* Two half-open spans overlap when each starts before the other ends.
SpansOverlap(a, b) == a[1] < b[2] /\ b[1] < a[2]

\* Token indices of a span.
TokensOf(span) == {i \in span[1]..(span[2] - 1) : TRUE}

\* operator< of std::pair
PairLess(a, b) == a[1] < b[1] \/ (a[1] = b[1] /\ a[2] < b[2])

\* std::sort(chunks->begin(), chunks->end()) on a set of distinct pairs.
RECURSIVE SortSpans(_)
SortSpans(S) ==
  IF S = {} THEN <<>>
  ELSE LET m == CHOOSE x \in S : \A y \in S : x = y \/ PairLess(x, y)
       IN <<m>> \o SortSpans(S \ {m})

Range(seq) == {seq[i] : i \in 1..Len(seq)}

\* ------------------------------ chunker --------------------------------
Scores == 0..MaxScore

\* All non-empty token spans inside [0, n).
SpansIn(n) == {<<s, e>> : s \in 0..n, e \in 0..n} \cap
              {sp \in (0..n) \X (0..n) : sp[1] < sp[2]}

\* FeatureProcessor::MakeLabelMaps: the (left, right) extents a selection
\* label stands for.
LabelSpans(max_selection_span, reduced) ==
  {lr \in (0..max_selection_span) \X (0..max_selection_span) :
      (~reduced) \/ lr[1] + lr[2] <= max_selection_span}

\* The inference span of ModelChunk.
InferenceSpan(num_tokens, span_of_interest, max_selection_span) ==
  IntersectTokenSpans(
    ExpandTokenSpan(span_of_interest, max_selection_span, max_selection_span),
    <<0, num_tokens>>)

\* (variant) the reduced output space is not looked at
MaxChunkLength_Unreduced(o) == 2 * o.max_selection_span + 1

MaxChunkLength(o) ==
  IF o.reduced THEN o.max_selection_span + 1 ELSE 2 * o.max_selection_span + 1

\* (variant) a candidate may end before the span of interest starts
BoundsSensitiveCandidates_AnyEnd(o, span_of_interest, inference_span) ==
  {c \in (inference_span[1]..(span_of_interest[2] - 1)) \X
         (0..inference_span[2]) :
      /\ c[2] >= c[1] + 1
      /\ c[2] <= inference_span[2]
      /\ c[2] - c[1] <= MaxChunkLength(o)}

\* The candidate spans enumerated by ModelBoundsSensitiveScoreChunks.
BoundsSensitiveCandidates(o, span_of_interest, inference_span) ==
  {c \in (inference_span[1]..(span_of_interest[2] - 1)) \X
         (0..inference_span[2]) :
      /\ c[2] >= Max(c[1], span_of_interest[1]) + 1
      /\ c[2] <= inference_span[2]
      /\ c[2] - c[1] <= MaxChunkLength(o)}

\* The two loops of ModelBoundsSensitiveScoreChunks from (start, end) on:
\* the candidate spans in the order they are met.
RECURSIVE EnumerateCandidates(_, _, _, _, _)
EnumerateCandidates(start, end, span_of_interest, inference_span, max_chunk_length) ==
  IF start >= span_of_interest[2] THEN <<>>
  ELSE IF end <= inference_span[2] /\ end - start <= max_chunk_length
       THEN <<<<start, end>>>>
            \o EnumerateCandidates(start, end + 1, span_of_interest,
                                   inference_span, max_chunk_length)
       ELSE EnumerateCandidates(start + 1,
                                Max(start + 1, span_of_interest[1]) + 1,
                                span_of_interest, inference_span,
                                max_chunk_length)

\* Every span ModelBoundsSensitiveScoreChunks gives a score, the single
\* tokens scored as zero included, in enumeration order.
EnumeratedSpans(o, span_of_interest) ==
  LET inference_span == InferenceSpan(o.num_tokens, span_of_interest,
                                      o.max_selection_span)
  IN EnumerateCandidates(inference_span[1],
                         Max(inference_span[1], span_of_interest[1]) + 1,
                         span_of_interest, inference_span, MaxChunkLength(o))

\* ModelBoundsSensitiveScoreChunks: candidate span -> score.
ModelBoundsSensitiveScoreChunks(o, sc, span_of_interest, inference_span) ==
  [c \in BoundsSensitiveCandidates(o, span_of_interest, inference_span) |->
      IF o.single_zero /\ TokenSpanSize(c) = 1 THEN 0 ELSE sc[c]]

\* The (click, left, right) triples whose candidate span fits the text.
ClickKeys(num_tokens, max_selection_span, reduced) ==
  {k \in (0..(num_tokens - 1)) \X (0..max_selection_span)
           \X (0..max_selection_span) :
      /\ <<k[2], k[3]>> \in LabelSpans(max_selection_span, reduced)
      /\ k[1] - k[2] >= 0
      /\ k[1] + 1 + k[3] <= num_tokens}

ClickCandidate(k) == ExpandTokenSpan(SingleTokenSpan(k[1]), k[2], k[3])

SetMax(S) == CHOOSE x \in S : \A y \in S : y <= x

\* ModelClickContextScoreChunks: chunk_scores after UpdateMax over every
\* click position of the span of interest and every label.
ModelClickContextScoreChunks(o, csc, span_of_interest) ==
  LET keys == {k \in ClickKeys(o.num_tokens, o.max_selection_span, o.reduced) :
                  k[1] >= span_of_interest[1] /\ k[1] < span_of_interest[2]}
      cands == {ClickCandidate(k) : k \in keys}
  IN [c \in cands |-> SetMax({csc[k] : k \in {x \in keys : ClickCandidate(x) = c}})]

ScoreChunks(o, sc, csc, span_of_interest) ==
  IF o.bounds_sensitive
  THEN ModelBoundsSensitiveScoreChunks(o, sc, span_of_interest,
         InferenceSpan(o.num_tokens, span_of_interest, o.max_selection_span))
  ELSE ModelClickContextScoreChunks(o, csc, span_of_interest)

\* (variant) only the first token of the chunk is looked up in token_used
Feasible_FirstTokenOnly(chunk, token_used) == chunk[1] \notin token_used

\* A chunk is feasible when none of its tokens is marked in token_used.
Feasible(chunk, token_used) == TokensOf(chunk) \cap token_used = {}

SetMin(S) == CHOOSE x \in S : \A y \in S : x <= y

\* (variant) the chunks are sorted by ascending score
TopScore_Ascending(scored, rem) == SetMin({scored[c] : c \in rem})

\* The score of the chunks that come first among rem after the sort by
\* descending score.
TopScore(scored, rem) == SetMax({scored[c] : c \in rem})

\* The greedy sweep of ModelChunk over the chunks sorted by descending
\* score.  std::sort is not stable, so chunks of equal score can come in any
\* order; the sweep over an order of a tie group accepts its first feasible
\* chunk and goes on with the rest, hence the set of possible results.
RECURSIVE GreedySweep(_, _, _)
GreedySweep(scored, rem, token_used) ==
  IF rem = {} THEN {{}}
  ELSE LET top == TopScore(scored, rem)
           tie == {c \in rem : scored[c] = top}
           ok  == {c \in tie : Feasible(c, token_used)}
       IN IF ok = {} THEN GreedySweep(scored, rem \ tie, token_used)
          ELSE UNION {{ {c} \cup r :
                          r \in GreedySweep(scored, rem \ {c},
                                            token_used \cup TokensOf(c))} :
                      c \in ok}

\* TextClassifier::ModelChunk: the chunk lists it can return.
ModelChunk(o, sc, csc, span_of_interest) ==
  LET scored == ScoreChunks(o, sc, csc, span_of_interest)
  IN {SortSpans(picked) : picked \in GreedySweep(scored, DOMAIN scored, {})}

\* The span of interest ModelSuggestSelection builds around the click.
SymmetryContextSpan(o, click_pos) ==
  IntersectTokenSpans(
    ExpandTokenSpan(SingleTokenSpan(click_pos), o.symmetry, o.symmetry),
    <<0, o.num_tokens>>)

Options ==
  [num_tokens : 1..MaxTokens,
   max_selection_span : 1..MaxSelectionSpan,
   reduced : BOOLEAN,
   bounds_sensitive : BOOLEAN,
   single_zero : BOOLEAN,
   symmetry : 0..MaxSymmetry]

\* The spans whose logit the bounds-sensitive model is asked for.
ScoredSpans(o) ==
  {c \in SpansIn(o.num_tokens) :
      /\ TokenSpanSize(c) <= MaxChunkLength(o)
      /\ ~(o.single_zero /\ TokenSpanSize(c) = 1)}

ModelInit ==
  /\ opts \in {o \in Options : o.single_zero => o.bounds_sensitive}
  /\ IF opts.bounds_sensitive
     THEN /\ span_score \in [ScoredSpans(opts) -> Scores]
          /\ click_score = <<>>
     ELSE /\ span_score = <<>>
          /\ click_score \in [ClickKeys(opts.num_tokens, opts.max_selection_span,
                                        opts.reduced) -> Scores]

InitChunk ==
  /\ ModelInit
  /\ last = NoCall
  /\ prev = NoCall

\* A direct call of ModelChunk (Annotate passes the full line span).
DoModelChunk ==
  \E soi \in SpansIn(opts.num_tokens) :
    \E chunks \in ModelChunk(opts, span_score, click_score, soi) :
      /\ last' = [kind |-> "chunk", soi |-> soi,
                  scored |-> ScoreChunks(opts, span_score, click_score, soi),
                  enumerated |-> IF opts.bounds_sensitive
                                 THEN EnumeratedSpans(opts, soi) ELSE <<>>,
                  chunks |-> chunks]
      /\ prev' = NoCall
      /\ UNCHANGED <<opts, span_score, click_score>>

\* ModelSuggestSelection for a click on token click_pos.
DoModelSuggestSelection ==
  \E click_pos \in 0..(opts.num_tokens - 1) :
    LET soi == SymmetryContextSpan(opts, click_pos)
    IN \E chunks \in ModelChunk(opts, span_score, click_score, soi) :
         /\ last' = [kind |-> "select", click |-> click_pos, soi |-> soi,
                     scored |-> ScoreChunks(opts, span_score, click_score, soi),
                     chunks |-> chunks]
         /\ prev' = last
         /\ UNCHANGED <<opts, span_score, click_score>>

\* ----------------------- the chunker run twice -------------------------
\* scored_chunks as the scoring function leaves it: the bounds-sensitive one
\* pushes the zero-scored single tokens while it enumerates and the batched
\* spans after them, in enumeration order; the click-context one reads its
\* std::map in key order.
ScoredSequence(o, span_of_interest) ==
  IF o.bounds_sensitive
  THEN LET cands == BoundsSensitiveCandidates(o, span_of_interest,
                      InferenceSpan(o.num_tokens, span_of_interest,
                                    o.max_selection_span))
           zeroed == IF o.single_zero
                     THEN {c \in cands : TokenSpanSize(c) = 1} ELSE {}
       IN SortSpans(zeroed) \o SortSpans(cands \ zeroed)
  ELSE SortSpans(DOMAIN ModelClickContextScoreChunks(o, click_score,
                                                     span_of_interest))

\* std::sort is a function of its input: it has no state and no source of
\* randomness.  The order it leaves equal scores in is not fixed by the
\* source; it depends on the library's algorithm.  A build's sort is
\* modelled by a ranking of the positions of its input: of equal scores,
\* the one at the position ranked first comes first.

\* The orders of the positions rem that are descending by score.
RECURSIVE DescendingOrders(_, _, _)
DescendingOrders(seq, scored, rem) ==
  IF rem = {} THEN {<<>>}
  ELSE LET top == SetMax({scored[seq[i]] : i \in rem})
       IN UNION {{<<pick>> \o rest :
                    rest \in DescendingOrders(seq, scored, rem \ {pick})} :
                 pick \in {i \in rem : scored[seq[i]] = top}}

\* The rankings of the positions of scored_chunks, one for every order
\* std::sort can leave this input in.
SortTies(seq, scored) ==
  {[i \in 1..Len(seq) |-> CHOOSE k \in 1..Len(seq) : order[k] = i] :
     order \in DescendingOrders(seq, scored, 1..Len(seq))}

\* std::sort of scored_chunks by descending score, positions rem left, in a
\* build that orders equal scores by ties.
RECURSIVE StdSortDescending(_, _, _, _)
StdSortDescending(seq, scored, rem, ties) ==
  IF rem = {} THEN <<>>
  ELSE LET top == SetMax({scored[seq[i]] : i \in rem})
           tie == {i \in rem : scored[seq[i]] = top}
           pick == CHOOSE i \in tie : \A j \in tie : ties[i] <= ties[j]
       IN <<seq[pick]>> \o StdSortDescending(seq, scored, rem \ {pick}, ties)

\* The greedy loop of ModelChunk over the sorted chunks from position k on.
RECURSIVE GreedyLoop(_, _, _)
GreedyLoop(sorted, k, token_used) ==
  IF k > Len(sorted) THEN <<>>
  ELSE IF Feasible(sorted[k], token_used)
       THEN <<sorted[k]>>
            \o GreedyLoop(sorted, k + 1, token_used \cup TokensOf(sorted[k]))
       ELSE GreedyLoop(sorted, k + 1, token_used)

\* std::sort(chunks->begin(), chunks->end()) on a vector of pairs.
RECURSIVE SortSequence(_)
SortSequence(seq) ==
  IF seq = <<>> THEN <<>>
  ELSE LET m == CHOOSE i \in 1..Len(seq) :
                  \A j \in 1..Len(seq) : seq[i] = seq[j] \/ PairLess(seq[i], seq[j])
       IN <<seq[m]>>
          \o SortSequence([j \in 1..(Len(seq) - 1) |->
                             IF j < m THEN seq[j] ELSE seq[j + 1]])

\* (variant) the output vector is not cleared before the chunks are pushed
ChunksAtStart_NotCleared(chunks) == chunks

\* chunks->clear(): what the output vector holds when the greedy loop
\* starts, given what it held when ModelChunk was called.
ChunksAtStart(chunks) == <<>>

\* ModelChunk from the sort on: the output vector is cleared, the sorted
\* chunks are placed greedily, the chunks placed are sorted by position.
ChunksAfterSort(sorted, chunks) ==
  SortSequence(ChunksAtStart(chunks) \o GreedyLoop(sorted, 1, {}))

\* TextClassifier::ModelChunk in a build that orders equal scores by ties,
\* called with an output vector holding chunks.
ModelChunkRun(o, sc, csc, span_of_interest, ties, chunks) ==
  LET scored == ScoreChunks(o, sc, csc, span_of_interest)
      seq == ScoredSequence(o, span_of_interest)
      sorted == StdSortDescending(seq, scored, 1..Len(seq), ties)
  IN ChunksAfterSort(sorted, chunks)

\* A loaded model.
InitRuns ==
  /\ opts \in {x \in Options : x.single_zero => x.bounds_sensitive}
  /\ IF opts.bounds_sensitive
     THEN /\ span_score \in [ScoredSpans(opts) -> Scores]
          /\ click_score = <<>>
     ELSE /\ span_score = <<>>
          /\ click_score \in [ClickKeys(opts.num_tokens, opts.max_selection_span,
                                        opts.reduced) -> Scores]
  /\ last = NoCall
  /\ prev = NoCall

\* ModelChunk is run, and run again on the same span of interest with the
\* output vector of the first run: the chunks are scored, sorted and placed
\* anew.  How the build's sort ranks equal scores shows in the first run;
\* the second run is made by the same build.
DoModelChunkRun ==
  /\ prev = NoCall
  /\ IF last = NoCall
     THEN \E soi \in SpansIn(opts.num_tokens) :
            \E ties \in SortTies(ScoredSequence(opts, soi),
                                 ScoreChunks(opts, span_score, click_score, soi)) :
               last' = [kind |-> "run", soi |-> soi, sort_ties |-> ties,
                        chunks |-> ModelChunkRun(opts, span_score, click_score,
                                                 soi, ties, <<>>)]
     ELSE last' = [kind |-> "run", soi |-> last.soi,
                   sort_ties |-> last.sort_ties,
                   chunks |-> ModelChunkRun(opts, span_score, click_score,
                                            last.soi, last.sort_ties,
                                            last.chunks)]
  /\ prev' = last
  /\ UNCHANGED <<opts, span_score, click_score>>

SpecRuns == InitRuns /\ [][DoModelChunkRun]_vars

\* -------------------------- conflict resolver --------------------------
kOtherCollection == "other"

\* One classification result; only the top result of a list is ever read by
\* the resolver, so a classification is the empty list or a one-element list.
Other == [collection |-> kOtherCollection, score |-> 1, priority_score |-> 1]
Real(p) == [collection |-> "phone", score |-> 0, priority_score |-> p]

CodepointSpans ==
  {sp \in (0..MaxCodepoint) \X (0..MaxCodepoint) : sp[1] <= sp[2]}

\* Classifications a candidate of the regex or datetime source carries.
Carried == {<<Other>>} \cup {<<Real(p)>> : p \in MinPriority..MaxPriority}

\* What ModelClassifyText answers for a candidate that carries none: a
\* failure, no result (classification mode not triggered), "other", or a real
\* label whose priority is its softmax score.
ModelAnswers ==
  {[status |-> "fail", classification |-> <<>>]} \cup
  {[status |-> "ok", classification |-> c] :
     c \in {<<>>, <<Other>>} \cup {<<Real(p)>> : p \in 0..MaxPriority}}

\* The model is not asked about a candidate that carries a classification.
NotAsked == [status |-> "na", classification |-> <<>>]

CandidateInputs ==
  {c \in [span : CodepointSpans, classification : Carried \cup {<<>>},
          model : ModelAnswers \cup {NotAsked}] :
      (c.classification = <<>>) <=> (c.model # NotAsked)}

\* Candidate lists sorted by span.first; the model answers the same for the
\* same span.
CandidateLists ==
  {cs \in UNION {[1..k -> CandidateInputs] : k \in 0..MaxCandidates} :
      /\ \A i \in 1..(Len(cs) - 1) : cs[i].span[1] <= cs[i + 1].span[1]
      /\ \A i, j \in 1..Len(cs) :
           (cs[i].model # NotAsked /\ cs[j].model # NotAsked /\ cs[i].span = cs[j].span)
             => cs[i].model = cs[j].model}

\* (variant) the conflicting span is not grown by the spans that join it
RECURSIVE GrowConflict_NoGrow(_, _, _)
GrowConflict_NoGrow(candidates, first_non_overlapping, conflicting_span) ==
  IF first_non_overlapping <= Len(candidates) /\
     SpansOverlap(conflicting_span, candidates[first_non_overlapping].span)
  THEN GrowConflict_NoGrow(candidates, first_non_overlapping + 1,
                           conflicting_span)
  ELSE first_non_overlapping

\* The loop of FirstNonOverlappingSpanIndex (indices are 1-based here).
RECURSIVE GrowConflict(_, _, _)
GrowConflict(candidates, first_non_overlapping, conflicting_span) ==
  IF first_non_overlapping <= Len(candidates) /\
     SpansOverlap(conflicting_span, candidates[first_non_overlapping].span)
  THEN GrowConflict(candidates, first_non_overlapping + 1,
         <<conflicting_span[1],
           Max(conflicting_span[2], candidates[first_non_overlapping].span[2])>>)
  ELSE first_non_overlapping

FirstNonOverlappingSpanIndex(candidates, start_index) ==
  GrowConflict(candidates, start_index + 1, candidates[start_index].span)

\* The loop of ResolveConflicts from candidate i on: the conflict clusters
\* [start, end) it forms, in order.
RECURSIVE ClustersFrom(_, _)
ClustersFrom(candidates, i) ==
  IF i > Len(candidates) THEN <<>>
  ELSE <<<<i, FirstNonOverlappingSpanIndex(candidates, i)>>>>
       \o ClustersFrom(candidates, FirstNonOverlappingSpanIndex(candidates, i))

ClassifiedAsOther(classification) ==
  classification # <<>> /\ classification[1].collection = kOtherCollection

\* (variant) the "other" label keeps its own priority score
GetPriorityScore_NoSentinel(classification) == classification[1].priority_score

GetPriorityScore(classification) ==
  IF ~ClassifiedAsOther(classification)
  THEN classification[1].priority_score
  ELSE -1

\* The classification a member of a conflict is ranked by: the one it
\* carries, else the answer of ModelClassifyText.
RankedBy(c) ==
  IF c.classification # <<>> THEN c.classification ELSE c.model.classification

\* The scores map of ResolveConflict; reading a key that was never written
\* (an empty answer of the classifier) yields the map's default, 0.
ConflictScores(candidates, start_index, end_index) ==
  [i \in start_index..(end_index - 1) |->
     IF RankedBy(candidates[i]) # <<>>
     THEN GetPriorityScore(RankedBy(candidates[i]))
     ELSE 0]

\* Does the candidate overlap a candidate that was already chosen?
DoesCandidateConflict(considered_candidate, candidates, chosen_indices_set) ==
  \E j \in chosen_indices_set :
     SpansOverlap(candidates[considered_candidate].span, candidates[j].span)

\* std::set::insert under the comparator on span.first: an index whose
\* span.first equals that of a chosen index is equivalent to it and is not
\* inserted.
SetInsert(candidates, chosen_indices_set, i) ==
  IF \E j \in chosen_indices_set : candidates[j].span[1] = candidates[i].span[1]
  THEN chosen_indices_set
  ELSE chosen_indices_set \cup {i}

\* (variant) the members are sorted by ascending priority
TopPriority_Ascending(scores, rem) == SetMin({scores[i] : i \in rem})

\* The priority of the members that come first among rem after the sort by
\* descending priority.
TopPriority(scores, rem) == SetMax({scores[i] : i \in rem})

\* The greedy placement of ResolveConflict.  std::sort is not stable: the
\* members of equal priority are taken in every order.
RECURSIVE PlaceGreedily(_, _, _, _)
PlaceGreedily(candidates, scores, rem, chosen_indices_set) ==
  IF rem = {} THEN {chosen_indices_set}
  ELSE LET top == TopPriority(scores, rem)
       IN UNION {PlaceGreedily(candidates, scores, rem \ {i},
                   IF ~DoesCandidateConflict(i, candidates, chosen_indices_set)
                   THEN SetInsert(candidates, chosen_indices_set, i)
                   ELSE chosen_indices_set) :
                 i \in {x \in rem : scores[x] = top}}

\* The chosen set read in its own order (ascending span.first).
RECURSIVE SetInOrder(_, _)
SetInOrder(candidates, chosen) ==
  IF chosen = {} THEN <<>>
  ELSE LET m == CHOOSE x \in chosen :
                   \A y \in chosen : candidates[x].span[1] <= candidates[y].span[1]
       IN <<m>> \o SetInOrder(candidates, chosen \ {m})

\* (variant) a member the classifier fails on is ranked with the default score
ClassifierFails_Ignored(candidates, start_index, end_index) == FALSE

\* The classification step of ResolveConflict: ModelClassifyText is called
\* for every member that carries no classification; the step fails if one
\* of these calls fails.
ClassifierFails(candidates, start_index, end_index) ==
  \E i \in start_index..(end_index - 1) :
     candidates[i].classification = <<>> /\ candidates[i].model.status = "fail"

\* ResolveConflict: whether it succeeds and the index lists it can return;
\* a failed call leaves chosen_indices as it was handed in, empty.
ResolveConflict(candidates, start_index, end_index) ==
  IF ClassifierFails(candidates, start_index, end_index)
  THEN [ok |-> FALSE, results |-> {<<>>}]
  ELSE [ok |-> TRUE,
        results |-> {SetInOrder(candidates, chosen) :
          chosen \in PlaceGreedily(candidates,
                       ConflictScores(candidates, start_index, end_index),
                       start_index..(end_index - 1), {})}]

\* ResolveConflicts from candidate i on: whether it succeeds and the
\* results it can return.  A failed ResolveConflict ends the loop at once,
\* and result keeps the winners of the clusters resolved before it.
RECURSIVE ResolveFrom(_, _)
ResolveFrom(candidates, i) ==
  IF i > Len(candidates) THEN [ok |-> TRUE, results |-> {<<>>}]
  ELSE LET first_non_overlapping == FirstNonOverlappingSpanIndex(candidates, i)
           conflict_found == first_non_overlapping # i + 1
           here == IF conflict_found
                   THEN ResolveConflict(candidates, i, first_non_overlapping)
                   ELSE [ok |-> TRUE, results |-> {<<i>>}]
           rest == ResolveFrom(candidates, first_non_overlapping)
       IN IF ~here.ok THEN [ok |-> FALSE, results |-> {<<>>}]
          ELSE [ok |-> rest.ok,
                results |-> {h \o r : h \in here.results, r \in rest.results}]

ResolveConflicts(candidates) == ResolveFrom(candidates, 1)

NoModel == [num_tokens |-> 0]

\* The arguments of the call are drawn at the start; the call is made once.
InitResolve ==
  /\ opts = NoModel
  /\ span_score = <<>>
  /\ click_score = <<>>
  /\ last = NoCall
  /\ prev \in {[kind |-> "args", candidates |-> cs] : cs \in CandidateLists}

\* A call of ResolveConflicts on a position-sorted candidate list.
DoResolveConflicts ==
  /\ prev.kind = "args"
  /\ last = NoCall
  /\ LET candidates == prev.candidates
         res == ResolveConflicts(candidates)
     IN \E r \in res.results :
          last' = [kind |-> "resolve", candidates |-> candidates,
                   ok |-> res.ok, result |-> r]
  /\ UNCHANGED <<opts, span_score, click_score, prev>>

SpecResolve == InitResolve /\ [][DoResolveConflicts]_vars

\* ------------------------ cached feature matrix -----------------------
\* Feature values are floats in the code.  The model writes the float x as
\* the integer x * Unit; Unit is chosen so that 0.1 and every quotient by a
\* span length up to 6 is a whole number.
Unit == 6 * 100
MaxWindow == 2

\* The embedding executor of cached-features_test.cc.
AddEmbedding(sparse_features) ==
  <<sparse_features[1] * 11 * Unit, (0 - sparse_features[1]) * 11 * Unit>>

\* PopulateTokenFeatures: the embedded sparse features, then the dense ones.
PopulateTokenFeatures(sparse_features, dense_features) ==
  AddEmbedding(sparse_features) \o dense_features

RECURSIVE Flatten(_)
Flatten(rows) ==
  IF rows = <<>> THEN <<>> ELSE Head(rows) \o Flatten(Tail(rows))

\* CalculateOutputFeaturesSize: the length OutputFeaturesSize() announces
\* for one query.
CalculateOutputFeaturesSize(options, feature_vector_size) ==
  LET config == options.bounds_sensitive_features
      num_extracted_tokens ==
        IF options.bounds_sensitive_enabled
        THEN config.num_tokens_before + config.num_tokens_inside_left
             + config.num_tokens_inside_right + config.num_tokens_after
             + (IF config.include_inside_bag THEN 1 ELSE 0)
        ELSE 2 * options.context_size + 1
  IN num_extracted_tokens * feature_vector_size
     + (IF options.bounds_sensitive_enabled /\ config.include_inside_length
        THEN 1 ELSE 0)

\* Whether PopulateTokenFeatures succeeds for every token of the extraction
\* span and for the padding token.  embedded: whether AddEmbedding succeeds,
\* per token of the extraction span, the padding token last.
CreateReturnsMatrix(embedded) == \A i \in 1..Len(embedded) : embedded[i]

\* The lowest feature version Create accepts.
MinFeatureVersion(options) == IF options.bounds_sensitive_enabled THEN 2 ELSE 1

\* CachedFeatures::Create: nullptr for an unsupported feature version or a
\* token whose sparse features cannot be embedded; otherwise the announced
\* output size, one row per token of the extraction span and the row of
\* the padding token.
Create(extraction_span, sparse_features, dense_features, padding_sparse_features, padding_dense_features, options, embedded, feature_vector_size) ==
  IF options.feature_version < MinFeatureVersion(options) THEN "nullptr"
  ELSE IF ~CreateReturnsMatrix(embedded) THEN "nullptr"
  ELSE [extraction_span |-> extraction_span,
        output_features_size |->
          CalculateOutputFeaturesSize(options, feature_vector_size),
        features |-> Flatten([i \in 1..TokenSpanSize(extraction_span) |->
                  PopulateTokenFeatures(sparse_features[i], dense_features[i])]),
        padding_features |-> PopulateTokenFeatures(padding_sparse_features,
                                                   padding_dense_features)]

\* The options of TEST(CachedFeaturesTest, Simple), for a feature version
\* and a window configuration.
ExampleOptions(feature_version, enabled, config) ==
  [feature_version |-> feature_version,
   bounds_sensitive_enabled |-> enabled,
   bounds_sensitive_features |-> config,
   context_size |-> MaxWindow]

ExampleConfig ==
  [num_tokens_before |-> 2, num_tokens_inside_left |-> 2,
   num_tokens_inside_right |-> 2, num_tokens_after |-> 2,
   include_inside_bag |-> TRUE, include_inside_length |-> TRUE]

\* Create on the inputs of TEST(CachedFeaturesTest, Simple): extraction span
\* [3, 9), sparse feature i + 1 and dense feature (i + 1) * 0.1 for token i.
ExampleCreate(options, embedded) ==
  Create(<<3, 9>>,
         [i \in 1..9 |-> <<i>>],
         [i \in 1..9 |-> <<i * (Unit \div 10)>>],
         <<10203>>, <<321 * Unit>>, options, embedded, 3)

\* The matrix of the test: every embedding succeeds.
ExampleMatrix ==
  ExampleCreate(ExampleOptions(2, TRUE, ExampleConfig), [i \in 1..7 |-> TRUE])

NumFeaturesPerToken(cf) == Len(cf.padding_features)

RECURSIVE Repeat(_, _)
Repeat(row, n) == IF n <= 0 THEN <<>> ELSE row \o Repeat(row, n - 1)

\* (variant) no padding rows for the tokens outside the read mask
AppendFeaturesInternal_NoPadding(cf, intended_span, read_mask_span) ==
  LET copy_span == IntersectTokenSpans(intended_span, read_mask_span)
      n == NumFeaturesPerToken(cf)
  IN SubSeq(cf.features, copy_span[1] * n + 1, copy_span[2] * n)

\* AppendFeaturesInternal: padding rows for the part of intended_span left
\* of the read mask, the cached rows of the part inside it, padding rows for
\* the part right of it.
AppendFeaturesInternal(cf, intended_span, read_mask_span) ==
  LET copy_span == IntersectTokenSpans(intended_span, read_mask_span)
      n == NumFeaturesPerToken(cf)
  IN Repeat(cf.padding_features, copy_span[1] - intended_span[1])
     \o SubSeq(cf.features, copy_span[1] * n + 1, copy_span[2] * n)
     \o Repeat(cf.padding_features, intended_span[2] - copy_span[2])

\* (variant) the bag row is the sum of the rows, not divided by the length
AppendBagFeatures_Sum(cf, bag_span) ==
  LET n == NumFeaturesPerToken(cf)
      Acc[i \in bag_span[1]..bag_span[2]] ==
        IF i = bag_span[1] THEN [j \in 1..n |-> 0]
        ELSE [j \in 1..n |-> Acc[i - 1][j] + cf.features[(i - 1) * n + j]]
  IN Acc[bag_span[2]]

\* AppendBagFeatures: every row of bag_span divided by the span length and
\* added up.
AppendBagFeatures(cf, bag_span) ==
  LET n == NumFeaturesPerToken(cf)
      Acc[i \in bag_span[1]..bag_span[2]] ==
        IF i = bag_span[1] THEN [j \in 1..n |-> 0]
        ELSE [j \in 1..n |->
                Acc[i - 1][j] +
                (cf.features[(i - 1) * n + j] \div TokenSpanSize(bag_span))]
  IN Acc[bag_span[2]]

\* (variant) both windows read the whole extraction span
AppendBoundsSensitiveFeaturesForSpan_FullReadMask(cf, config, span) ==
  LET selected_span == <<span[1] - cf.extraction_span[1],
                         span[2] - cf.extraction_span[1]>>
  IN AppendFeaturesInternal(cf,
       <<selected_span[1] - config.num_tokens_before,
         selected_span[1] + config.num_tokens_inside_left>>,
       <<0, TokenSpanSize(cf.extraction_span)>>)
     \o AppendFeaturesInternal(cf,
       <<selected_span[2] - config.num_tokens_inside_right,
         selected_span[2] + config.num_tokens_after>>,
       <<0, TokenSpanSize(cf.extraction_span)>>)
     \o (IF config.include_inside_bag
         THEN AppendBagFeatures(cf, selected_span) ELSE <<>>)
     \o (IF config.include_inside_length
         THEN <<TokenSpanSize(selected_span) * Unit>> ELSE <<>>)

\* CachedFeatures::AppendBoundsSensitiveFeaturesForSpan
AppendBoundsSensitiveFeaturesForSpan(cf, config, span) ==
  LET selected_span == <<span[1] - cf.extraction_span[1],
                         span[2] - cf.extraction_span[1]>>
  IN AppendFeaturesInternal(cf,
       <<selected_span[1] - config.num_tokens_before,
         selected_span[1] + config.num_tokens_inside_left>>,
       <<0, selected_span[2]>>)
     \o AppendFeaturesInternal(cf,
       <<selected_span[2] - config.num_tokens_inside_right,
         selected_span[2] + config.num_tokens_after>>,
       <<selected_span[1], TokenSpanSize(cf.extraction_span)>>)
     \o (IF config.include_inside_bag
         THEN AppendBagFeatures(cf, selected_span) ELSE <<>>)
     \o (IF config.include_inside_length
         THEN <<TokenSpanSize(selected_span) * Unit>> ELSE <<>>)

\* CachedFeatures::AppendClickContextFeaturesForClick
AppendClickContextFeaturesForClick(cf, context_size, click_pos) ==
  AppendFeaturesInternal(cf,
    ExpandTokenSpan(SingleTokenSpan(click_pos - cf.extraction_span[1]),
                    context_size, context_size),
    <<0, TokenSpanSize(cf.extraction_span)>>)

BoundsSensitiveConfigs ==
  [num_tokens_before : 0..MaxWindow,
   num_tokens_inside_left : 0..MaxWindow,
   num_tokens_inside_right : 0..MaxWindow,
   num_tokens_after : 0..MaxWindow,
   include_inside_bag : BOOLEAN,
   include_inside_length : BOOLEAN]

\* The non-empty token spans inside the extraction span.
SpansInside(extraction_span) ==
  {sp \in (extraction_span[1]..extraction_span[2]) \X
          (extraction_span[1]..extraction_span[2]) : sp[1] < sp[2]}

\* The feature versions a model can declare.
FeatureVersions == 0..2

\* Every embedding succeeding, or the embedding of one token failing.
EmbeddingOutcomes(n) ==
  {[i \in 1..n |-> TRUE]} \cup {[i \in 1..n |-> i # k] : k \in 1..n}

\* The arguments of a call are drawn at the start; the call is made once.
InitCached ==
  /\ opts = NoModel
  /\ span_score = <<>>
  /\ click_score = <<>>
  /\ last = NoCall
  /\ prev \in {[kind |-> "bounds_args", config |-> c, span |-> sp] :
                 c \in BoundsSensitiveConfigs,
                 sp \in SpansInside(ExampleMatrix.extraction_span)}
          \cup {[kind |-> "click_args", context_size |-> k, click_pos |-> cp] :
                 k \in 0..MaxWindow,
                 cp \in ExampleMatrix.extraction_span[1]..
                        (ExampleMatrix.extraction_span[2] - 1)}
          \cup {[kind |-> "create_args", feature_version |-> v,
                  enabled |-> e, embedded |-> emb] :
                 v \in FeatureVersions, e \in BOOLEAN,
                 emb \in EmbeddingOutcomes(
                           TokenSpanSize(ExampleMatrix.extraction_span) + 1)}

\* A call of CachedFeatures::Create on the inputs of the test.
DoCachedFeaturesCreate ==
  /\ prev.kind = "create_args"
  /\ last = NoCall
  /\ last' = [kind |-> "created",
              cached_features |->
                ExampleCreate(ExampleOptions(prev.feature_version,
                                             prev.enabled, ExampleConfig),
                              prev.embedded)]
  /\ UNCHANGED <<opts, span_score, click_score, prev>>

DoAppendBoundsSensitiveFeaturesForSpan ==
  /\ prev.kind = "bounds_args"
  /\ last = NoCall
  /\ last' = [kind |-> "bounds_features",
              output_features |->
                AppendBoundsSensitiveFeaturesForSpan(ExampleMatrix, prev.config,
                                                     prev.span)]
  /\ UNCHANGED <<opts, span_score, click_score, prev>>

DoAppendClickContextFeaturesForClick ==
  /\ prev.kind = "click_args"
  /\ last = NoCall
  /\ last' = [kind |-> "click_features",
              output_features |->
                AppendClickContextFeaturesForClick(ExampleMatrix,
                                                   prev.context_size,
                                                   prev.click_pos)]
  /\ UNCHANGED <<opts, span_score, click_score, prev>>

NextCached ==
  \/ DoAppendBoundsSensitiveFeaturesForSpan
  \/ DoAppendClickContextFeaturesForClick
  \/ DoCachedFeaturesCreate

SpecCached == InitCached /\ [][NextCached]_vars

\* ----------------------------- public calls ----------------------------
MaxPatterns == 2

kDateCollection == "date"

\* The classification DatetimeChunk gives a datetime span: the rule's target
\* classification score and its priority score.
Date == [collection |-> kDateCollection, score |-> 1, priority_score |-> 0]

\* A ClassificationResult built from a collection and a score alone: its
\* priority score is its score.
ClassificationResult(collection, score) ==
  [collection |-> collection, score |-> score, priority_score |-> score]

\* The result DatetimeClassifyText builds from the collection and the
\* rule's target classification score.
DateResult == ClassificationResult(kDateCollection, Date.score)

\* The chunks of ModelChunk as codepoint spans after StripBoundaryCodepoints
\* and StripUnpairedBrackets, in chunk order.  Chunks are pairwise disjoint
\* and stripping only shrinks a span, possibly to an empty one; each
\* non-empty one comes with the answer ModelClassifyText gives for it.
StrippedChunks(context_size) ==
  LET spans == {sp \in CodepointSpans : sp[1] < sp[2] /\ sp[2] <= context_size}
      disjoint == {S \in SUBSET spans :
                     \A x, y \in S : x # y => ~SpansOverlap(x, y)}
      emptied == {{}} \cup {{<<k, k>>} : k \in 0..context_size}
  IN UNION {{[i \in 1..Cardinality(S \cup E) |->
                LET sp == SortSpans(S \cup E)[i]
                IN [span |-> sp,
                    model |-> IF sp \in S THEN f[sp] ELSE NotAsked]] :
               E \in emptied, f \in [S -> ModelAnswers]} : S \in disjoint}

\* The end of ModelSuggestSelection: only non-empty spans become candidates,
\* none of which carries a classification.
RECURSIVE ModelSuggestSelection(_)
ModelSuggestSelection(stripped) ==
  IF stripped = <<>> THEN <<>>
  ELSE (IF Head(stripped).span[1] # Head(stripped).span[2]
        THEN <<[span |-> Head(stripped).span, classification |-> <<>>,
                model |-> Head(stripped).model]>>
        ELSE <<>>)
       \o ModelSuggestSelection(Tail(stripped))

MaxBatches == 2

\* What ComputeLogits hands back for one batch: valid logits of the right
\* shape, an invalid tensor, or logits of another shape.
LogitsOutcomes == {"valid", "invalid", "mismatch"}

\* FeatureProcessor::ExtractFeatures: fails when Create gives no matrix.  A
\* feature version Create does not support ends the call the same way as
\* the first token failing to embed, so it is not drawn separately here.
ExtractFeatures(embedded) == CreateReturnsMatrix(embedded)

\* (variant) a batch without valid logits is scored as zero and scoring goes on
ScoreChunksSucceeds_ZeroOnFailure(logits) == TRUE

\* ModelClickContextScoreChunks / ModelBoundsSensitiveScoreChunks return
\* false at the first batch whose logits are invalid or of the wrong shape.
ScoreChunksSucceeds(logits) == \A b \in 1..Len(logits) : logits[b] = "valid"

\* Whether ModelSuggestSelection returns true.  With the selection mode not
\* triggered it returns true at once; otherwise it needs the click position,
\* the features and the chunks.
ModelSuggestSelectionSucceeds(m) ==
  IF ~m.triggering THEN TRUE
  ELSE /\ m.click_found
       /\ ExtractFeatures(m.embedded)
       /\ ScoreChunksSucceeds(m.logits)

\* The candidates ModelSuggestSelection adds when it succeeds.
ModelSuggestSelectionCandidates(m) ==
  IF ~m.triggering THEN <<>> ELSE ModelSuggestSelection(m.stripped)

\* What a rule source (RegexChunk, DatetimeChunk) adds: a failure or a list
\* of classified candidates.
RuleResults(context_size, classification) ==
  {[ok |-> FALSE, candidates |-> <<>>], [ok |-> TRUE, candidates |-> <<>>]} \cup
  {[ok |-> TRUE,
    candidates |-> <<[span |-> sp, classification |-> classification,
                      model |-> NotAsked]>>] :
     sp \in {x \in CodepointSpans : x[2] <= context_size}}

\* A rule source that finds one candidate over the first codepoint.
AnsweringRule(classification) ==
  [ok |-> TRUE,
   candidates |-> <<[span |-> <<0, 1>>, classification |-> classification,
                     model |-> NotAsked]>>]

Orderings(n) ==
  {f \in [1..n -> 1..n] : \A i, j \in 1..n : i # j => f[i] # f[j]}

\* std::sort by span.first (not stable): every order of the candidates with
\* ascending span.first.
SortByFirst(candidates) ==
  {[i \in 1..Len(candidates) |-> candidates[f[i]]] :
     f \in {g \in Orderings(Len(candidates)) :
              \A i \in 1..(Len(candidates) - 1) :
                 candidates[g[i]].span[1] <= candidates[g[i + 1]].span[1]}}

\* (variant) the bound on click_indices.second is not checked
InvalidClick_NoUpperBound(click_indices, context_codepoint_size) ==
  \/ click_indices[1] < 0
  \/ click_indices[2] < 0
  \/ click_indices[1] >= context_codepoint_size
  \/ click_indices[1] >= click_indices[2]

\* The index check of SuggestSelection.
InvalidClick(click_indices, context_codepoint_size) ==
  \/ click_indices[1] < 0
  \/ click_indices[2] < 0
  \/ click_indices[1] >= context_codepoint_size
  \/ click_indices[2] > context_codepoint_size
  \/ click_indices[1] >= click_indices[2]

\* (variant) the first winner is returned whether or not it overlaps the click
FirstOverlapping_AnyWinner(candidates, candidate_indices, click_indices, k) ==
  IF k > Len(candidate_indices) THEN click_indices
  ELSE candidates[candidate_indices[k]].span

\* The last loop of SuggestSelection: the span of the first winner, from
\* winner k on, that overlaps the click; the click itself if there is none.
RECURSIVE FirstOverlapping(_, _, _, _)
FirstOverlapping(candidates, candidate_indices, click_indices, k) ==
  IF k > Len(candidate_indices) THEN click_indices
  ELSE IF SpansOverlap(candidates[candidate_indices[k]].span, click_indices)
       THEN candidates[candidate_indices[k]].span
       ELSE FirstOverlapping(candidates, candidate_indices, click_indices, k + 1)

\* A SuggestSelection call that returned.  winners: the indices the call
\* went on with after ResolveConflicts; none when resolution failed, since
\* the call then returns the click without reading the index vector.
SuggestReturn(click, consulted, candidates, winners, result) ==
  [kind |-> "suggest", returned |-> TRUE, click_indices |-> click,
   consulted |-> consulted, candidates |-> candidates, winners |-> winners,
   result |-> result]

\* TextClassifier::SuggestSelection: the records of the ways the call can
\* end.  a: the arguments and what the sources answer.
SuggestSelection(a) ==
  IF ~a.initialized \/ ~a.mode_enabled
     \/ InvalidClick(a.click_indices, a.context_size)
  THEN {SuggestReturn(a.click_indices, <<>>, <<>>, <<>>, a.click_indices)}
  ELSE IF ~ModelSuggestSelectionSucceeds(a.model)
  THEN {SuggestReturn(a.click_indices, <<"model">>, <<>>, <<>>, a.click_indices)}
  ELSE IF ~a.regex.ok
  THEN {SuggestReturn(a.click_indices, <<"model", "regex">>, <<>>, <<>>,
                      a.click_indices)}
  ELSE IF ~a.has_datetime_parser
  THEN \* DatetimeChunk calls Parse through the null datetime_parser_
       {[kind |-> "suggest", returned |-> FALSE,
         click_indices |-> a.click_indices,
         consulted |-> <<"model", "regex", "datetime">>,
         candidates |-> <<>>, winners |-> <<>>, result |-> a.click_indices]}
  ELSE IF ~a.datetime.ok
  THEN {SuggestReturn(a.click_indices, <<"model", "regex", "datetime">>, <<>>,
                      <<>>, a.click_indices)}
  ELSE UNION {
         LET res == ResolveConflicts(candidates)
         IN IF ~res.ok
            THEN {SuggestReturn(a.click_indices,
                                <<"model", "regex", "datetime">>, candidates,
                                <<>>, a.click_indices)}
            ELSE {SuggestReturn(a.click_indices,
                                <<"model", "regex", "datetime">>, candidates, w,
                                FirstOverlapping(candidates, w,
                                                 a.click_indices, 1)) :
                    w \in res.results} :
         candidates \in SortByFirst(ModelSuggestSelectionCandidates(a.model)
                                    \o a.regex.candidates
                                    \o a.datetime.candidates)}

\* Index pairs a caller can pass, valid or not.
IndexPairs(context_size) ==
  ((0 - 1)..(context_size + 1)) \X ((0 - 1)..(context_size + 1))

\* The selection model at work without a failure, for every chunk list.
ModelSelectionResults(context_size) ==
  {[triggering |-> TRUE, click_found |-> TRUE, embedded |-> <<TRUE, TRUE>>,
    logits |-> <<"valid">>, stripped |-> x] : x \in StrippedChunks(context_size)}

\* The selection model with every outcome of its stages, for one chunk over
\* the first codepoint.
ModelStageResults ==
  {[triggering |-> t, click_found |-> c, embedded |-> e, logits |-> l,
    stripped |-> <<[span |-> <<0, 1>>,
                    model |-> [status |-> "ok",
                               classification |-> <<Real(0)>>]]>>] :
     t \in BOOLEAN, c \in BOOLEAN,
     e \in UNION {[1..k -> BOOLEAN] : k \in 2..(MaxTokens + 1)},
     l \in UNION {[1..k -> LogitsOutcomes] : k \in 0..MaxBatches}}

\* The arguments of a SuggestSelection call.  Calls with the pipeline
\* reached vary in what the sources answer; the others are made against
\* sources that would all answer with a candidate over the first codepoint.
InitSuggest ==
  /\ opts = NoModel
  /\ span_score = <<>>
  /\ click_score = <<>>
  /\ last = NoCall
  /\ \E n \in 0..MaxCodepoint :
       \E c \in IndexPairs(n) :
         \/ /\ ~InvalidClick(c, n)
            /\ \E m \in ModelSelectionResults(n),
                  r \in RuleResults(n, <<Real(0)>>),
                  d \in RuleResults(n, <<Date>>) :
                 prev = [kind |-> "suggest_args", initialized |-> TRUE,
                         mode_enabled |-> TRUE, has_datetime_parser |-> TRUE,
                         context_size |-> n, click_indices |-> c,
                         model |-> m, regex |-> r, datetime |-> d]
         \/ /\ ~InvalidClick(c, n)
            /\ \E m \in ModelStageResults :
                 prev = [kind |-> "suggest_args", initialized |-> TRUE,
                         mode_enabled |-> TRUE, has_datetime_parser |-> TRUE,
                         context_size |-> n, click_indices |-> c,
                         model |-> m, regex |-> AnsweringRule(<<Real(0)>>),
                         datetime |-> [ok |-> TRUE, candidates |-> <<>>]]
         \/ \E i \in BOOLEAN, e \in BOOLEAN, p \in BOOLEAN :
              /\ ~(i /\ e /\ p /\ ~InvalidClick(c, n))
              /\ prev = [kind |-> "suggest_args", initialized |-> i,
                         mode_enabled |-> e, has_datetime_parser |-> p,
                         context_size |-> n, click_indices |-> c,
                         model |-> [triggering |-> TRUE, click_found |-> TRUE,
                                    embedded |-> <<TRUE, TRUE>>,
                                    logits |-> <<"valid">>,
                                    stripped |-> <<>>],
                         regex |-> AnsweringRule(<<Real(0)>>),
                         datetime |-> AnsweringRule(<<Date>>)]

DoSuggestSelection ==
  /\ prev.kind = "suggest_args"
  /\ last = NoCall
  /\ last' \in SuggestSelection(prev)
  /\ UNCHANGED <<opts, span_score, click_score, prev>>

SpecSuggest == InitSuggest /\ [][DoSuggestSelection]_vars

\* ------------------------------- Annotate -----------------------------
\* The test ModelAnnotate makes before it adds a classified chunk.
KeptByModelAnnotate(classification, min_annotate_confidence) ==
  /\ classification # <<>>
  /\ ~ClassifiedAsOther(classification)
  /\ classification[1].score >= min_annotate_confidence

\* The chunk loop of ModelAnnotate: empty spans are skipped, a chunk the
\* model cannot classify ends the call with a failure, the others are added
\* with their classification if KeptByModelAnnotate.
RECURSIVE AnnotateChunks(_, _)
AnnotateChunks(stripped, min_annotate_confidence) ==
  IF stripped = <<>> THEN [ok |-> TRUE, candidates |-> <<>>]
  ELSE LET c == Head(stripped)
           rest == AnnotateChunks(Tail(stripped), min_annotate_confidence)
       IN IF c.span[1] = c.span[2] THEN rest
          ELSE IF c.model.status = "fail"
          THEN [ok |-> FALSE, candidates |-> <<>>]
          ELSE IF ~rest.ok THEN rest
          ELSE IF KeptByModelAnnotate(c.model.classification,
                                      min_annotate_confidence)
          THEN [ok |-> TRUE,
                candidates |-> <<[span |-> c.span,
                                  classification |-> c.model.classification,
                                  model |-> NotAsked]>> \o rest.candidates]
          ELSE rest

\* TextClassifier::ModelAnnotate.
ModelAnnotate(m, min_annotate_confidence) ==
  IF ~m.triggering THEN [ok |-> TRUE, candidates |-> <<>>]
  ELSE IF ~ExtractFeatures(m.embedded) \/ ~ScoreChunksSucceeds(m.logits)
  THEN [ok |-> FALSE, candidates |-> <<>>]
  ELSE AnnotateChunks(m.stripped, min_annotate_confidence)

\* (variant) every winner is returned
RECURSIVE AnnotateResult_Unfiltered(_, _)
AnnotateResult_Unfiltered(candidates, candidate_indices) ==
  IF candidate_indices = <<>> THEN <<>>
  ELSE <<candidates[Head(candidate_indices)]>>
       \o AnnotateResult_Unfiltered(candidates, Tail(candidate_indices))

\* The last loop of Annotate: the winners, in the order ResolveConflicts
\* gives them, without those with no classification or classified "other".
RECURSIVE AnnotateResult(_, _)
AnnotateResult(candidates, candidate_indices) ==
  IF candidate_indices = <<>> THEN <<>>
  ELSE (IF /\ candidates[Head(candidate_indices)].classification # <<>>
           /\ ~ClassifiedAsOther(candidates[Head(candidate_indices)].classification)
        THEN <<candidates[Head(candidate_indices)]>>
        ELSE <<>>)
       \o AnnotateResult(candidates, Tail(candidate_indices))

AnnotateReturn(consulted, candidates, resolved, winners, result) ==
  [kind |-> "annotate", returned |-> TRUE, consulted |-> consulted,
   candidates |-> candidates, resolved |-> resolved, winners |-> winners,
   result |-> result]

\* TextClassifier::Annotate: the records of the ways the call can end.
Annotate(a) ==
  IF ~a.mode_enabled
  THEN {AnnotateReturn(<<>>, <<>>, FALSE, <<>>, <<>>)}
  ELSE LET model == ModelAnnotate(a.model, a.min_annotate_confidence)
       IN
  IF ~model.ok
  THEN {AnnotateReturn(<<"model">>, <<>>, FALSE, <<>>, <<>>)}
  ELSE IF ~a.regex.ok
  THEN {AnnotateReturn(<<"model", "regex">>, <<>>, FALSE, <<>>, <<>>)}
  ELSE IF ~a.has_datetime_parser
  THEN \* DatetimeChunk calls Parse through the null datetime_parser_
       {[kind |-> "annotate", returned |-> FALSE,
         consulted |-> <<"model", "regex", "datetime">>,
         candidates |-> <<>>, resolved |-> FALSE, winners |-> <<>>,
         result |-> <<>>]}
  ELSE IF ~a.datetime.ok
  THEN {AnnotateReturn(<<"model", "regex", "datetime">>, <<>>, FALSE, <<>>,
                       <<>>)}
  ELSE UNION {
         LET res == ResolveConflicts(candidates)
         IN IF ~res.ok
            THEN {AnnotateReturn(<<"model", "regex", "datetime">>, candidates,
                                 FALSE, <<>>, <<>>)}
            ELSE {AnnotateReturn(<<"model", "regex", "datetime">>, candidates,
                                 TRUE, w, AnnotateResult(candidates, w)) :
                    w \in res.results} :
         candidates \in SortByFirst(model.candidates \o a.regex.candidates
                                    \o a.datetime.candidates)}

\* The arguments of an Annotate call: every chunk list with rule sources of
\* every kind, and every outcome of the model's stages.
InitAnnotate ==
  /\ opts = NoModel
  /\ span_score = <<>>
  /\ click_score = <<>>
  /\ last = NoCall
  /\ \E n \in 0..MaxCodepoint :
       \/ \E m \in ModelSelectionResults(n), conf \in 0..MaxScore,
             cls \in Carried :
            \E r \in RuleResults(n, cls), d \in RuleResults(n, <<Date>>) :
              prev = [kind |-> "annotate_args", mode_enabled |-> TRUE,
                      has_datetime_parser |-> TRUE, context_size |-> n,
                      min_annotate_confidence |-> conf,
                      model |-> m, regex |-> r, datetime |-> d]
       \/ \E m \in ModelStageResults, e \in BOOLEAN, p \in BOOLEAN :
            prev = [kind |-> "annotate_args", mode_enabled |-> e,
                    has_datetime_parser |-> p, context_size |-> n,
                    min_annotate_confidence |-> 0,
                    model |-> m, regex |-> AnsweringRule(<<Real(0)>>),
                    datetime |-> [ok |-> TRUE, candidates |-> <<>>]]

DoAnnotate ==
  /\ prev.kind = "annotate_args"
  /\ last = NoCall
  /\ last' \in Annotate(prev)
  /\ UNCHANGED <<opts, span_score, click_score, prev>>

SpecAnnotate == InitAnnotate /\ [][DoAnnotate]_vars

\* SuggestSelection and Annotate calls together.
InitPipeline == InitSuggest \/ InitAnnotate

NextPipeline == DoSuggestSelection \/ DoAnnotate

SpecPipeline == InitPipeline /\ [][NextPipeline]_vars

\* What one classification pattern does on the selection text.
PatternOutcomes == {"match", "nomatch", "error"}

\* The classification of the pattern at position i of
\* classification_regex_patterns_: its collection, target score and priority.
PatternResult(i) == [collection |-> "pattern", score |-> i, priority_score |-> i]

\* RegexClassifyText: the patterns are tried in order; a matcher error ends
\* the search without a result, the first match gives the result.
RECURSIVE RegexClassifyText(_, _)
RegexClassifyText(patterns, i) ==
  IF i > Len(patterns) THEN [ok |-> FALSE, result |-> <<>>]
  ELSE IF patterns[i] = "error" THEN [ok |-> FALSE, result |-> <<>>]
  ELSE IF patterns[i] = "match" THEN [ok |-> TRUE, result |-> <<PatternResult(i)>>]
  ELSE RegexClassifyText(patterns, i + 1)

\* (variant) any parsed span is taken, whether or not it covers the selection
DatetimeClassifyText_AnySpan(has_datetime_parser, datetime, selection_indices) ==
  IF ~has_datetime_parser THEN [ok |-> FALSE, result |-> <<>>]
  ELSE IF ~datetime.ok THEN [ok |-> FALSE, result |-> <<>>]
  ELSE IF datetime.spans # <<>>
       THEN [ok |-> TRUE, result |-> <<DateResult>>]
       ELSE [ok |-> FALSE, result |-> <<>>]

\* DatetimeClassifyText: no parser or a failed parse gives nothing; a parsed
\* span counts only if, moved to the selection's start, it equals the
\* selection.
DatetimeClassifyText(has_datetime_parser, datetime, selection_indices) ==
  IF ~has_datetime_parser THEN [ok |-> FALSE, result |-> <<>>]
  ELSE IF ~datetime.ok THEN [ok |-> FALSE, result |-> <<>>]
  ELSE IF \E k \in 1..Len(datetime.spans) :
            <<datetime.spans[k][1] + selection_indices[1],
              datetime.spans[k][2] + selection_indices[1]>> = selection_indices
       THEN [ok |-> TRUE, result |-> <<DateResult>>]
       ELSE [ok |-> FALSE, result |-> <<>>]

\* ExtractSelection advances an iterator from the start of the context by
\* each index: the walk stays inside the text only for indices in
\* [0, number of codepoints].
WalksOutsideText(selection_indices, context_size) ==
  \/ selection_indices[1] < 0 \/ selection_indices[1] > context_size
  \/ selection_indices[2] < 0 \/ selection_indices[2] > context_size

ClassifyReturn(returned, consulted, result) ==
  [kind |-> "classify", returned |-> returned, consulted |-> consulted,
   result |-> result]

\* TextClassifier::ClassifyText: the records of the ways the call can end.
\* A walk outside the text reads memory that is not the context: the call
\* is terminated, or goes on with whatever the patterns and the parser make
\* of what was read.
ClassifyText(a) ==
  IF ~a.initialized \/ ~a.mode_enabled
     \/ a.selection_indices[1] >= a.selection_indices[2]
  THEN {ClassifyReturn(TRUE, <<>>, <<>>)}
  ELSE
    (IF WalksOutsideText(a.selection_indices, a.context_size)
     THEN {ClassifyReturn(FALSE, <<"regex">>, <<>>)}
     ELSE {})
    \cup
    LET regex == RegexClassifyText(a.patterns, 1)
        datetime == DatetimeClassifyText(a.has_datetime_parser, a.datetime,
                                         a.selection_indices)
    IN IF regex.ok
       THEN {ClassifyReturn(TRUE, <<"regex">>, regex.result)}
       ELSE IF datetime.ok
       THEN {ClassifyReturn(TRUE, <<"regex", "datetime">>, datetime.result)}
       ELSE {ClassifyReturn(TRUE, <<"regex", "datetime", "model">>,
                            IF a.model.status = "ok"
                            THEN a.model.classification ELSE <<>>)}

\* Pattern outcome lists of up to MaxPatterns patterns.
PatternLists == UNION {[1..k -> PatternOutcomes] : k \in 0..MaxPatterns}

\* What the datetime parser makes of the selection text: a failure, or the
\* spans it found, relative to the start of the selection.
ParseResults ==
  {[ok |-> FALSE, spans |-> <<>>], [ok |-> TRUE, spans |-> <<>>]} \cup
  {[ok |-> TRUE, spans |-> <<sp>>] : sp \in CodepointSpans} \cup
  {[ok |-> TRUE, spans |-> <<sp[1], sp[2]>>] :
     sp \in {x \in CodepointSpans \X CodepointSpans : ~SpansOverlap(x[1], x[2])}}

\* The arguments of a ClassifyText call.  Calls that get past the switches
\* vary in what the sources answer; the others are made against sources
\* that would all answer.
InitClassify ==
  /\ opts = NoModel
  /\ span_score = <<>>
  /\ click_score = <<>>
  /\ last = NoCall
  /\ \E n \in 0..MaxCodepoint :
       \E c \in IndexPairs(n) :
         \/ \E p \in BOOLEAN, r \in PatternLists, d \in ParseResults,
               m \in ModelAnswers :
              prev = [kind |-> "classify_args", initialized |-> TRUE,
                      mode_enabled |-> TRUE, has_datetime_parser |-> p,
                      context_size |-> n, selection_indices |-> c,
                      patterns |-> r, datetime |-> d, model |-> m]
         \/ \E i \in BOOLEAN, e \in BOOLEAN :
              /\ ~(i /\ e)
              /\ prev = [kind |-> "classify_args", initialized |-> i,
                         mode_enabled |-> e, has_datetime_parser |-> TRUE,
                         context_size |-> n, selection_indices |-> c,
                         patterns |-> <<"match">>,
                         datetime |-> [ok |-> TRUE,
                                       spans |-> <<<<0, c[2] - c[1]>>>>],
                         model |-> [status |-> "ok",
                                    classification |-> <<Real(0)>>]]

DoClassifyText ==
  /\ prev.kind = "classify_args"
  /\ last = NoCall
  /\ last' \in ClassifyText(prev)
  /\ UNCHANGED <<opts, span_score, click_score, prev>>

SpecClassify == InitClassify /\ [][DoClassifyText]_vars

SpecChunk == InitChunk /\ [][DoModelChunk]_vars

SpecSelect == InitChunk /\ [][DoModelSuggestSelection]_vars

\* ------------------------- span helpers called -------------------------
\* Token spans of a text of up to MaxTokens tokens, the empty ones included.
TokenSpans == {sp \in (0..MaxTokens) \X (0..MaxTokens) : sp[1] <= sp[2]}

\* The arguments of a call of one of the helpers of types.h.
InitSpans ==
  /\ opts = NoModel
  /\ span_score = <<>>
  /\ click_score = <<>>
  /\ last = NoCall
  /\ \E a \in TokenSpans, b \in TokenSpans, l \in 0..MaxWindow,
        r \in 0..MaxWindow, i \in 0..MaxTokens :
       prev = [kind |-> "args", token_span |-> a, token_span2 |-> b,
               num_tokens_left |-> l, num_tokens_right |-> r,
               token_index |-> i]

DoExpandTokenSpan ==
  /\ last = NoCall
  /\ last' = [kind |-> "expand",
              result |-> ExpandTokenSpan(prev.token_span, prev.num_tokens_left,
                                         prev.num_tokens_right)]
  /\ UNCHANGED <<opts, span_score, click_score, prev>>

DoIntersectTokenSpans ==
  /\ last = NoCall
  /\ last' = [kind |-> "intersect",
              result |-> IntersectTokenSpans(prev.token_span, prev.token_span2)]
  /\ UNCHANGED <<opts, span_score, click_score, prev>>

DoSingleTokenSpan ==
  /\ last = NoCall
  /\ last' = [kind |-> "single", result |-> SingleTokenSpan(prev.token_index)]
  /\ UNCHANGED <<opts, span_score, click_score, prev>>

NextSpans == DoExpandTokenSpan \/ DoIntersectTokenSpans \/ DoSingleTokenSpan

SpecSpans == InitSpans /\ [][NextSpans]_vars

\* ----------------------------- construction ---------------------------
ModeFlags == {"annotation", "classification", "selection"}

SelectionSections ==
  {"selection_options", "selection_feature_options",
   "selection_bounds_sensitive_features", "selection_model"}

ClassificationSections ==
  {"classification_options", "classification_feature_options",
   "classification_bounds_sensitive_features", "classification_model"}

\* The flatbuffer models a verified buffer can hold: the modes of its
\* triggering options (none when it has no triggering options), the sections
\* it has, whether the two feature options agree on the embedding, whether
\* an executor of its embedding model is ready, its regex model and whether
\* a parser can be built from its datetime model.
Models ==
  {m \in [enabled_modes : SUBSET ModeFlags,
          sections : SUBSET (SelectionSections \cup ClassificationSections
                             \cup {"embedding_model"}),
          embedding_matches : BOOLEAN,
          embedding_ready : BOOLEAN,
          regex_model : {"none", "no_patterns", "patterns"},
          datetime_model : {"none", "parser_built", "parser_not_built"}] :
      /\ "selection_bounds_sensitive_features" \in m.sections
           => "selection_feature_options" \in m.sections
      /\ "classification_bounds_sensitive_features" \in m.sections
           => "classification_feature_options" \in m.sections}

\* TextClassifier::InitializeRegexModel: false, with initialized_ set to
\* false, when the regex section has no patterns; true otherwise.
InitializeRegexModel(model) == model.regex_model # "no_patterns"

\* (variant) the embedding executor is not asked whether it is ready
ValidateAndInitialize_ReadinessIgnored(model) ==
  LET any == model.enabled_modes # {}
      sel == model.enabled_modes \cap {"annotation", "selection"} # {}
  IN IF sel /\ ~(SelectionSections \subseteq model.sections) THEN FALSE
     ELSE IF any /\ ~(ClassificationSections \subseteq model.sections) THEN FALSE
     ELSE IF any /\ "embedding_model" \notin model.sections THEN FALSE
     ELSE IF "selection" \in model.enabled_modes /\ ~model.embedding_matches
          THEN FALSE
     ELSE IF model.datetime_model = "parser_not_built" THEN FALSE
     ELSE TRUE

\* TextClassifier::ValidateAndInitialize: the value it leaves in
\* initialized_.  A regex model that cannot be initialized is logged only.
ValidateAndInitialize(model) ==
  LET any == model.enabled_modes # {}
      sel == model.enabled_modes \cap {"annotation", "selection"} # {}
  IN IF sel /\ ~(SelectionSections \subseteq model.sections) THEN FALSE
     ELSE IF any /\ ~(ClassificationSections \subseteq model.sections) THEN FALSE
     ELSE IF any /\ "embedding_model" \notin model.sections THEN FALSE
     ELSE IF "selection" \in model.enabled_modes /\ ~model.embedding_matches
          THEN FALSE
     ELSE IF any /\ ~model.embedding_ready THEN FALSE
     ELSE LET after_regex ==
                IF model.regex_model # "none" /\ ~InitializeRegexModel(model)
                THEN FALSE   \* set by InitializeRegexModel, then logged
                ELSE FALSE   \* as set on entry
          IN IF model.datetime_model = "parser_not_built" THEN after_regex
             ELSE TRUE       \* the last statement, whatever came before

\* What a factory hands back: nullptr, or the classifier it constructed.
NullClassifier == [kind |-> "create", classifier |-> "nullptr",
                   initialized |-> FALSE]

\* TextClassifier::FromUnownedBuffer
FromUnownedBuffer(verifies, model) ==
  IF ~verifies THEN NullClassifier
  ELSE IF ~ValidateAndInitialize(model) THEN NullClassifier
  ELSE [kind |-> "create", classifier |-> "classifier",
        initialized |-> ValidateAndInitialize(model)]

\* TextClassifier::FromScopedMmap (FromPath and FromFileDescriptor map the
\* file and call it).
FromScopedMmap(mmap_ok, verifies, model) ==
  IF ~mmap_ok THEN NullClassifier
  ELSE IF ~verifies THEN NullClassifier
  ELSE IF ~ValidateAndInitialize(model) THEN NullClassifier
  ELSE [kind |-> "create", classifier |-> "classifier",
        initialized |-> ValidateAndInitialize(model)]

\* The buffer or file a factory is called with.
InitCreate ==
  /\ opts = NoModel
  /\ span_score = <<>>
  /\ click_score = <<>>
  /\ last = NoCall
  /\ \E ok \in BOOLEAN, v \in BOOLEAN, m \in Models :
       prev = [kind |-> "args", mmap_ok |-> ok, verifies |-> v, model |-> m]

DoFromUnownedBuffer ==
  /\ last = NoCall
  /\ prev.mmap_ok
  /\ last' = FromUnownedBuffer(prev.verifies, prev.model)
  /\ UNCHANGED <<opts, span_score, click_score, prev>>

DoFromScopedMmap ==
  /\ last = NoCall
  /\ last' = FromScopedMmap(prev.mmap_ok, prev.verifies, prev.model)
  /\ UNCHANGED <<opts, span_score, click_score, prev>>

NextCreate == DoFromUnownedBuffer \/ DoFromScopedMmap

SpecCreate == InitCreate /\ [][NextCreate]_vars

\* ----------------------------- datetime parser -------------------------
\* found_spans after the rules of the locales ran: what ParseWithRule pushed,
\* in rule and match order.
FoundSpanLists ==
  UNION {[1..k -> [span : CodepointSpans]] : k \in 0..MaxCandidates}

\* (variant) found_spans is sorted with the shorter span first
LongestFirst_ShortestFirst(found_spans, rem) ==
  SetMin({found_spans[i].span[2] - found_spans[i].span[1] : i \in rem})

\* The length of the spans that come first among rem after the sort of
\* found_spans by descending length.
LongestFirst(found_spans, rem) ==
  SetMax({found_spans[i].span[2] - found_spans[i].span[1] : i \in rem})

\* The loop of Parse over the sorted found_spans: the spans (by their place
\* in found_spans) pushed to results, in push order.  std::sort is not
\* stable: spans of equal length are taken in every order.
RECURSIVE ParseGreedily(_, _, _, _)
ParseGreedily(found_spans, rem, chosen_indices_set, results) ==
  IF rem = {} THEN {results}
  ELSE LET top == LongestFirst(found_spans, rem)
       IN UNION {IF ~DoesCandidateConflict(i, found_spans, chosen_indices_set)
                 THEN ParseGreedily(found_spans, rem \ {i},
                        SetInsert(found_spans, chosen_indices_set, i),
                        Append(results, i))
                 ELSE ParseGreedily(found_spans, rem \ {i},
                        chosen_indices_set, results) :
                 i \in {x \in rem :
                          found_spans[x].span[2] - found_spans[x].span[1] = top}}

\* DatetimeParser::Parse: false and nothing added when a rule fails,
\* otherwise the spans it can add to results.
Parse(rules_ok, found_spans) ==
  IF ~rules_ok THEN {[kind |-> "parse", ok |-> FALSE, added |-> <<>>]}
  ELSE {[kind |-> "parse", ok |-> TRUE, added |-> r] :
          r \in ParseGreedily(found_spans, 1..Len(found_spans), {}, <<>>)}

\* What the rules find in the input of a Parse call.
InitParse ==
  /\ opts = NoModel
  /\ span_score = <<>>
  /\ click_score = <<>>
  /\ last = NoCall
  /\ \E ok \in BOOLEAN, f \in FoundSpanLists :
       prev = [kind |-> "args", rules_ok |-> ok, found_spans |-> f]

DoParse ==
  /\ last = NoCall
  /\ last' \in Parse(prev.rules_ok, prev.found_spans)
  /\ UNCHANGED <<opts, span_score, click_score, prev>>

SpecParse == InitParse /\ [][DoParse]_vars

\* ------------------- feature queries of the chunker --------------------
\* (variant) the extraction span does not reach max_selection_span beyond
\* the symmetry context span
ExtractionSpan_NoSelectionReach(o, symmetry_context_span) ==
  IntersectTokenSpans(
    IF o.bounds_sensitive
    THEN ExpandTokenSpan(symmetry_context_span,
           o.bounds_sensitive_features.num_tokens_before,
           o.bounds_sensitive_features.num_tokens_after)
    ELSE ExpandTokenSpan(symmetry_context_span, o.context_size, o.context_size),
    <<0, o.num_tokens>>)

\* The extraction span ModelSuggestSelection has the feature matrix built
\* for.
ExtractionSpan(o, symmetry_context_span) ==
  IntersectTokenSpans(
    IF o.bounds_sensitive
    THEN ExpandTokenSpan(symmetry_context_span,
           o.max_selection_span + o.bounds_sensitive_features.num_tokens_before,
           o.max_selection_span + o.bounds_sensitive_features.num_tokens_after)
    ELSE ExpandTokenSpan(symmetry_context_span, o.context_size, o.context_size),
    <<0, o.num_tokens>>)

\* What one ModelChunk call asks of the matrix built for extraction_span and
\* of token_used: the click positions and candidate spans it passes to the
\* queries, the row ranges AppendFeaturesInternal copies and the rows
\* AppendBagFeatures reads (relative to the extraction span), and the
\* indices into token_used of the scored candidates.
ChunkQueries(o, span_of_interest, extraction_span) ==
  LET inference_span == InferenceSpan(o.num_tokens, span_of_interest,
                                      o.max_selection_span)
      config == o.bounds_sensitive_features
      size == TokenSpanSize(extraction_span)
      scored == IF o.bounds_sensitive
                THEN Range(EnumeratedSpans(o, span_of_interest))
                ELSE {ClickCandidate(k) :
                        k \in {x \in ClickKeys(o.num_tokens, o.max_selection_span,
                                               o.reduced) :
                                 /\ x[1] >= span_of_interest[1]
                                 /\ x[1] < span_of_interest[2]}}
      spans == IF o.bounds_sensitive
               THEN {c \in scored : ~(o.single_zero /\ TokenSpanSize(c) = 1)}
               ELSE {}
      clicks == IF o.bounds_sensitive THEN {}
                ELSE span_of_interest[1]..(span_of_interest[2] - 1)
      Selected(c) == <<c[1] - extraction_span[1], c[2] - extraction_span[1]>>
  IN [kind |-> "queries",
      extraction_span |-> extraction_span,
      inference_span |-> inference_span,
      spans |-> spans,
      clicks |-> clicks,
      copied |->
        {IntersectTokenSpans(
           <<Selected(c)[1] - config.num_tokens_before,
             Selected(c)[1] + config.num_tokens_inside_left>>,
           <<0, Selected(c)[2]>>) : c \in spans}
        \cup
        {IntersectTokenSpans(
           <<Selected(c)[2] - config.num_tokens_inside_right,
             Selected(c)[2] + config.num_tokens_after>>,
           <<Selected(c)[1], size>>) : c \in spans}
        \cup
        {IntersectTokenSpans(
           ExpandTokenSpan(SingleTokenSpan(p - extraction_span[1]),
                           o.context_size, o.context_size),
           <<0, size>>) : p \in clicks},
      bag_rows |-> IF config.include_inside_bag
                   THEN UNION {TokensOf(Selected(c)) : c \in spans} ELSE {},
      token_used |-> {i - inference_span[1] :
                        i \in UNION {TokensOf(c) : c \in scored}}]

\* A loaded selection model with its feature options; scores play no part
\* in what is asked of the matrix.
InitQueries ==
  /\ \E o \in {x \in Options : x.single_zero => x.bounds_sensitive},
        k \in 0..MaxWindow, c \in BoundsSensitiveConfigs :
       /\ o.bounds_sensitive => k = 0
       /\ ~o.bounds_sensitive =>
            c = [num_tokens_before |-> 0, num_tokens_inside_left |-> 0,
                 num_tokens_inside_right |-> 0, num_tokens_after |-> 0,
                 include_inside_bag |-> FALSE, include_inside_length |-> FALSE]
       /\ opts = [num_tokens |-> o.num_tokens,
                  max_selection_span |-> o.max_selection_span,
                  reduced |-> o.reduced,
                  bounds_sensitive |-> o.bounds_sensitive,
                  single_zero |-> o.single_zero,
                  symmetry |-> o.symmetry,
                  context_size |-> k,
                  bounds_sensitive_features |-> c]
  /\ span_score = <<>>
  /\ click_score = <<>>
  /\ last = NoCall
  /\ prev = NoCall

\* ModelSuggestSelection for a click on token click_pos, up to ModelChunk.
DoSuggestSelectionQueries ==
  /\ last = NoCall
  /\ \E click_pos \in 0..(opts.num_tokens - 1) :
       /\ last' = ChunkQueries(opts, SymmetryContextSpan(opts, click_pos),
                    ExtractionSpan(opts, SymmetryContextSpan(opts, click_pos)))
       /\ prev' = [kind |-> "suggest_args", click_pos |-> click_pos]
  /\ UNCHANGED <<opts, span_score, click_score>>

\* ModelAnnotate for a line of num_tokens tokens, up to ModelChunk: the
\* matrix and the span of interest are the full line.
DoAnnotateQueries ==
  /\ last = NoCall
  /\ last' = ChunkQueries(opts, <<0, opts.num_tokens>>, <<0, opts.num_tokens>>)
  /\ prev' = [kind |-> "annotate_args"]
  /\ UNCHANGED <<opts, span_score, click_score>>

NextQueries == DoSuggestSelectionQueries \/ DoAnnotateQueries

SpecQueries == InitQueries /\ [][NextQueries]_vars

\* ------------------------- properties: chunker -------------------------
ChunkCallDone == last.kind = "chunk"

\* C1: no two token spans of the chunk list returned by ModelChunk share a
\* token.
C1_ChunksPairwiseDisjoint ==
  ChunkCallDone =>
    \A i, j \in 1..Len(last.chunks) :
       i # j => TokensOf(last.chunks[i]) \cap TokensOf(last.chunks[j]) = {}

\* A ModelChunk call that returned two chunks and rejected a scored
\* candidate that overlaps one of them.
C1_Witness ==
  /\ ChunkCallDone
  /\ Len(last.chunks) >= 2
  /\ \E c \in DOMAIN last.scored :
       /\ c \notin Range(last.chunks)
       /\ \E i \in 1..Len(last.chunks) : SpansOverlap(c, last.chunks[i])

\* The chunk a selection call returns for its click: the chunk of the list
\* that contains the clicked token.
SelectedChunk(call) ==
  CHOOSE c \in Range(call.chunks) : call.click \in TokensOf(c)

TwoSelections == prev.kind = "select" /\ last.kind = "select"

\* The chunks a selection seeded at click_pos can return for its click,
\* over every order the sort can give to equal scores.
PossibleSelections(click_pos) ==
  {CHOOSE c \in Range(chunks) : click_pos \in TokensOf(c) :
     chunks \in ModelChunk(opts, span_score, click_score,
                           SymmetryContextSpan(opts, click_pos))}

\* C3 as stated: if the selection seeded at token c returned chunk S, the
\* selection seeded at any other token of S returns S as well.  Equal scores
\* are counted in the claim's favour: S has to be the only possible answer at
\* c, and one of the possible answers at the other token.
C3_SymmetricSelection_AsStated ==
  (/\ TwoSelections
   /\ last.click # prev.click
   /\ PossibleSelections(prev.click) = {SelectedChunk(prev)}
   /\ last.click \in TokensOf(SelectedChunk(prev)))
    => SelectedChunk(prev) \in PossibleSelections(last.click)

\* S is scored for the call and scores strictly higher than every other
\* scored candidate that overlaps it.
Dominates(S, call) ==
  /\ S \in DOMAIN call.scored
  /\ \A c \in DOMAIN call.scored :
       (c # S /\ SpansOverlap(c, S)) => call.scored[c] < call.scored[S]

\* C3 (amended): if the selection seeded at token c returned chunk S, and S
\* is among the candidates scored for a click on another token c' of S and
\* scores strictly higher there than every other candidate overlapping it,
\* then the selection seeded at c' returns S as well.
C3_SymmetricSelection_Dominated ==
  (/\ TwoSelections
   /\ last.click \in TokensOf(SelectedChunk(prev))
   /\ Dominates(SelectedChunk(prev), last))
    => SelectedChunk(last) = SelectedChunk(prev)

\* Two selections seeded at different tokens of a multi-token chunk S that
\* dominates at the second click, with another candidate scored above zero.
C3_Witness ==
  /\ TwoSelections
  /\ last.click # prev.click
  /\ last.click \in TokensOf(SelectedChunk(prev))
  /\ TokenSpanSize(SelectedChunk(prev)) >= 2
  /\ Dominates(SelectedChunk(prev), last)
  /\ SelectedChunk(last) = SelectedChunk(prev)
  /\ \E c \in DOMAIN last.scored : c # SelectedChunk(prev) /\ last.scored[c] > 0

\* --------------------- properties: conflict resolver --------------------
Resolved == last.kind = "resolve"

SpanOf(i) == last.candidates[i].span

\* C2 as stated: no two candidates whose indices ResolveConflicts returns
\* have overlapping spans.
C2_WinnersPairwiseDisjoint ==
  (Resolved /\ last.ok) =>
    \A i, j \in 1..Len(last.result) :
       i # j => ~SpansOverlap(SpanOf(last.result[i]), SpanOf(last.result[j]))

\* The top classification a candidate ends up with.
TopOf(i) == RankedBy(last.candidates[i])

IsOther(i) == ClassifiedAsOther(TopOf(i))
IsRealLabel(i) == TopOf(i) # <<>> /\ ~ClassifiedAsOther(TopOf(i))

TwoOverlapping ==
  /\ Resolved
  /\ Len(last.candidates) = 2
  /\ SpansOverlap(SpanOf(1), SpanOf(2))

\* C4 as stated: in a cluster of two overlapping candidates, one "other" and
\* one with a real label, the real-label candidate is accepted and the
\* "other" candidate rejected, whatever the scores and priority scores.  (A
\* tie of the two priorities is counted in the claim's favour: the result has
\* to be one the sort can produce.)
C4_RealLabelBeatsOther ==
  \A o, r \in 1..2 :
    (TwoOverlapping /\ o # r /\ IsOther(o) /\ IsRealLabel(r))
      => (last.ok /\ <<r>> \in ResolveConflicts(last.candidates).results)

\* The priority a classified member is ranked by.
PriorityOf(i) == GetPriorityScore(TopOf(i))

\* A overlaps B, B overlaps C, A does not overlap C.
Chain ==
  /\ Resolved
  /\ Len(last.candidates) = 3
  /\ SpansOverlap(SpanOf(1), SpanOf(2))
  /\ SpansOverlap(SpanOf(2), SpanOf(3))
  /\ ~SpansOverlap(SpanOf(1), SpanOf(3))

ChainMiddleLowest ==
  /\ Chain
  /\ \A i \in 1..3 : TopOf(i) # <<>>
  /\ PriorityOf(2) < PriorityOf(1)
  /\ PriorityOf(2) < PriorityOf(3)

\* C5: three position-sorted candidates A, B, C with A overlapping B, B
\* overlapping C and A not overlapping C form one conflict cluster; when B's
\* priority is lower than both A's and C's, exactly A and C are accepted.
C5_ChainKeepsBothEnds ==
  ChainMiddleLowest =>
    /\ FirstNonOverlappingSpanIndex(last.candidates, 1) = 4
    /\ last.ok
    /\ last.result = <<1, 3>>

\* A chain whose middle member has the lowest priority, resolved; the ends
\* have different priorities and one member was classified by the model.
C5_Witness ==
  /\ ChainMiddleLowest
  /\ last.result = <<1, 3>>
  /\ PriorityOf(1) # PriorityOf(3)
  /\ \E i \in 1..3 : last.candidates[i].classification = <<>>

\* -------------------- properties: cached feature matrix ----------------
\* x tenths as a model number
Tenths(x) == x * (Unit \div 10)

\* The row of the token with sparse feature id in the example matrix.
ExampleRow(id) == <<Tenths(110 * id), Tenths(0 - 110 * id), Tenths(id)>>

ExamplePaddingRow == <<Tenths(1122330), Tenths(0 - 1122330), Tenths(3210)>>

ExampleQuery ==
  /\ last.kind = "bounds_features"
  /\ prev.span = <<5, 8>>
  /\ prev.config = [num_tokens_before |-> 2, num_tokens_inside_left |-> 2,
                    num_tokens_inside_right |-> 2, num_tokens_after |-> 2,
                    include_inside_bag |-> TRUE, include_inside_length |-> TRUE]

\* C6 as stated: the query for span {5,8} with config (2, 2, 2, 2, bag,
\* length) over the example matrix yields the rows of tokens 1, 2, 3, 4, then
\* the rows of tokens 4, 5, 6 and one padding row, then the bag row
\* 132.0, -132.0, 1.2, then the length 3.0: 28 floats.
C6_WorkedExample ==
  ExampleQuery =>
    /\ Len(last.output_features) = 28
    /\ last.output_features =
         ExampleRow(1) \o ExampleRow(2) \o ExampleRow(3) \o ExampleRow(4)
         \o ExampleRow(4) \o ExampleRow(5) \o ExampleRow(6) \o ExamplePaddingRow
         \o <<Tenths(1320), Tenths(0 - 1320), Tenths(12)>> \o <<Tenths(30)>>

SuggestDone == last.kind = "suggest"

\* The invalid click_indices as the specification lists them.
StatedInvalidClick ==
  LET first == prev.click_indices[1]
      second == prev.click_indices[2]
      size == prev.context_size
  IN first < 0 \/ second < 0 \/ first >= size \/ second > size
     \/ first >= second

\* C7: whenever click_indices.first < 0, click_indices.second < 0,
\* click_indices.first >= context size, click_indices.second > context size
\* or click_indices.first >= click_indices.second, SuggestSelection returns
\* click_indices unchanged and invokes none of the model, the regex patterns
\* and the datetime parser.
C7_InvalidClickReturnedUntouched ==
  (SuggestDone /\ StatedInvalidClick)
    => /\ last.returned
       /\ last.result = prev.click_indices
       /\ last.consulted = <<>>

\* An initialized classifier with selection enabled was called with a click
\* whose only defect is that it ends one codepoint past the context.
C7_Witness ==
  /\ SuggestDone
  /\ prev.initialized /\ prev.mode_enabled /\ prev.has_datetime_parser
  /\ prev.click_indices = <<0, prev.context_size + 1>>
  /\ prev.context_size > 0
  /\ last.result = prev.click_indices

WinnerSpan(k) == last.candidates[last.winners[k]].span

\* C8: on valid click indices a SuggestSelection call that returns gives the
\* span of the first conflict-resolution winner, in left-to-right order,
\* that overlaps the click, and the click itself when no winner overlaps
\* it; so what it returns equals the click or overlaps it.
C8_FirstOverlappingWinner ==
  (SuggestDone /\ ~StatedInvalidClick /\ last.returned)
    => /\ \/ \E k \in 1..Len(last.winners) :
               /\ SpansOverlap(WinnerSpan(k), prev.click_indices)
               /\ \A j \in 1..(k - 1) :
                     ~SpansOverlap(WinnerSpan(j), prev.click_indices)
               /\ last.result = WinnerSpan(k)
          \/ /\ \A k \in 1..Len(last.winners) :
                   ~SpansOverlap(WinnerSpan(k), prev.click_indices)
             /\ last.result = prev.click_indices
       /\ \/ last.result = prev.click_indices
          \/ SpansOverlap(last.result, prev.click_indices)

\* The chunk under the click was stripped to nothing; of the two winners
\* left, the first does not touch the click and the second, wider than the
\* click, is returned.
C8_Witness ==
  /\ \E i \in 1..Len(prev.model.stripped) :
        prev.model.stripped[i].span = <<prev.click_indices[1],
                                       prev.click_indices[1]>>
  /\ SuggestDone /\ last.returned
  /\ Len(last.winners) >= 2
  /\ ~SpansOverlap(WinnerSpan(1), prev.click_indices)
  /\ SpansOverlap(WinnerSpan(2), prev.click_indices)
  /\ last.result = WinnerSpan(2)
  /\ last.result # prev.click_indices

ClassifyDone == last.kind = "classify"

\* The invalid selection indices as the specification lists them.
StatedInvalidSelection ==
  LET first == prev.selection_indices[1]
      second == prev.selection_indices[2]
      size == prev.context_size
  IN first >= second
     \/ first < 0 \/ first > size \/ second < 0 \/ second > size

\* C9: whenever the selection indices are invalid (selection.first >=
\* selection.second, or an index outside the codepoint range of the context)
\* ClassifyText returns an empty classification list and consults no
\* classifier source.
C9_InvalidSelectionGivesEmptyList ==
  (ClassifyDone /\ StatedInvalidSelection)
    => /\ last.returned
       /\ last.result = <<>>
       /\ last.consulted = <<>>

\* The first pattern, in order, that matches with no error before it.
FirstMatch(i) ==
  /\ i \in 1..Len(prev.patterns)
  /\ prev.patterns[i] = "match"
  /\ \A j \in 1..(i - 1) : prev.patterns[j] = "nomatch"

DatetimeCoversSelection ==
  /\ prev.has_datetime_parser
  /\ prev.datetime.ok
  /\ \E k \in 1..Len(prev.datetime.spans) :
        /\ prev.datetime.spans[k][1] = 0
        /\ prev.datetime.spans[k][2] =
             prev.selection_indices[2] - prev.selection_indices[1]

\* C10: on a valid selection ClassifyText consults regex, datetime and model
\* in this order: if a classification pattern matches, the result is exactly
\* that pattern's classification; otherwise, if the datetime parser yields a
\* span equal to the selection, the result is exactly the date
\* classification; only when neither holds is the model consulted and its
\* classification list returned.
C10_RegexThenDatetimeThenModel ==
  (ClassifyDone /\ prev.initialized /\ prev.mode_enabled
     /\ ~StatedInvalidSelection)
    => /\ last.returned
       /\ IF \E i \in 1..Len(prev.patterns) : FirstMatch(i)
          THEN /\ \E i \in 1..Len(prev.patterns) :
                    FirstMatch(i) /\ last.result = <<PatternResult(i)>>
               /\ last.consulted = <<"regex">>
          ELSE IF DatetimeCoversSelection
          THEN /\ last.result = <<DateResult>>
               /\ last.consulted = <<"regex", "datetime">>
          ELSE /\ last.result = (IF prev.model.status = "ok"
                                 THEN prev.model.classification ELSE <<>>)
               /\ last.consulted = <<"regex", "datetime", "model">>

\* No pattern matched, the parser found a span inside the selection but not
\* equal to it, and the model's answer was returned.
C10_Witness ==
  /\ ClassifyDone /\ last.returned
  /\ ~StatedInvalidSelection
  /\ Len(prev.patterns) = MaxPatterns
  /\ prev.has_datetime_parser /\ prev.datetime.ok
  /\ prev.datetime.spans # <<>>
  /\ ~DatetimeCoversSelection
  /\ last.consulted = <<"regex", "datetime", "model">>
  /\ last.result = <<Real(0)>>

AnnotateDone == last.kind = "annotate"

\* C11: no span Annotate returns has "other" as its top classification or
\* an empty classification, and the spans it returns are in ascending order
\* of their start position.
C11_AnnotateDropsOtherAndIsOrdered ==
  (AnnotateDone /\ last.returned)
    => /\ \A i \in 1..Len(last.result) :
             /\ last.result[i].classification # <<>>
             /\ last.result[i].classification[1].collection # kOtherCollection
       /\ \A i, j \in 1..Len(last.result) :
             i < j => last.result[i].span[1] <= last.result[j].span[1]

\* A regex span classified "other" won conflict resolution and was left
\* out, while two spans were returned.
C11_Witness ==
  /\ AnnotateDone /\ last.returned
  /\ \E k \in 1..Len(last.winners) :
        last.candidates[last.winners[k]].classification = <<Other>>
  /\ Len(last.result) >= 2

PipelineDone == SuggestDone \/ AnnotateDone

\* Candidate i of the call carries no classification, the classifier fails
\* on it, and the conflict cluster ResolveConflicts puts it in has more than
\* one member.
FailingClusterMember(i) ==
  /\ last.candidates[i].classification = <<>>
  /\ last.candidates[i].model.status = "fail"
  /\ LET clusters == ClustersFrom(last.candidates, 1)
     IN \E k \in 1..Len(clusters) :
           /\ clusters[k][1] <= i /\ i < clusters[k][2]
           /\ clusters[k][2] - clusters[k][1] > 1

\* The classifier fails on a chunk Annotate asks it about: a chunk that is
\* not empty after stripping.
AnnotateClassifierFails ==
  /\ prev.mode_enabled /\ prev.model.triggering
  /\ \E k \in 1..Len(prev.model.stripped) :
        /\ prev.model.stripped[k].span[1] # prev.model.stripped[k].span[2]
        /\ prev.model.stripped[k].model.status = "fail"

\* C12: if the classifier fails on an unclassified member of a conflict
\* cluster of more than one candidate, conflict resolution fails as a whole
\* and no winner list is used: SuggestSelection returns the click it was
\* given and Annotate an empty list.  Annotate has every chunk classified
\* before the conflicts are resolved, so its candidates all carry a
\* classification when they reach ResolveConflicts; a classifier that fails
\* fails there, and Annotate returns an empty list without going on to the
\* other sources.
C12_ClassifierFailureFailsResolution ==
  /\ (PipelineDone /\ \E i \in 1..Len(last.candidates) : FailingClusterMember(i))
       => /\ last.returned
          /\ last.winners = <<>>
          /\ SuggestDone => last.result = prev.click_indices
          /\ AnnotateDone => last.result = <<>>
  /\ AnnotateDone =>
       /\ \A i \in 1..Len(last.candidates) :
             last.candidates[i].classification # <<>>
       /\ AnnotateClassifierFails =>
             /\ last.returned
             /\ last.consulted = <<"model">>
             /\ last.candidates = <<>>
             /\ last.winners = <<>>
             /\ last.result = <<>>

\* The classifier failed on a chunk that overlaps neither of its neighbours
\* in the sorted list and is in the cluster through a longer regex span
\* before them, which lies over the click; the click was returned, not the
\* regex span.
C12_Witness ==
  /\ SuggestDone /\ last.returned
  /\ Len(last.candidates) = 3
  /\ FailingClusterMember(3)
  /\ ~SpansOverlap(last.candidates[2].span, last.candidates[3].span)
  /\ last.candidates[1].classification # <<>>
  /\ SpansOverlap(last.candidates[1].span, prev.click_indices)
  /\ last.candidates[1].span # prev.click_indices
  /\ last.result = prev.click_indices

\* The call got as far as the selection model and the model is triggered.
ModelStagesReached ==
  /\ prev.model.triggering
  /\ \/ /\ SuggestDone
        /\ prev.initialized /\ prev.mode_enabled
        /\ ~StatedInvalidClick
     \/ /\ AnnotateDone
        /\ prev.mode_enabled

EmbeddingFailure == \E i \in 1..Len(prev.model.embedded) : ~prev.model.embedded[i]

InferenceFailure == \E b \in 1..Len(prev.model.logits) : prev.model.logits[b] # "valid"

\* C13: if the sparse features of a token or of the padding token cannot be
\* embedded, or the backend gives invalid or wrong-shaped logits for a
\* batch, the model stage fails and produces no candidate: SuggestSelection
\* returns the click it was given and Annotate returns an empty list; no
\* candidate is built from a score that was not computed.
C13_BackendFailurePropagates ==
  (PipelineDone /\ ModelStagesReached /\ (EmbeddingFailure \/ InferenceFailure))
    => /\ last.returned
       /\ last.candidates = <<>>
       /\ last.winners = <<>>
       /\ last.consulted = <<"model">>
       /\ SuggestDone => last.result = prev.click_indices
       /\ AnnotateDone => last.result = <<>>

\* Every token was embedded and the first batch was scored, but the logits
\* of the second batch had the wrong shape: Annotate returned nothing,
\* though a regex span was there to be found.
C13_Witness ==
  /\ AnnotateDone /\ ModelStagesReached
  /\ ~EmbeddingFailure
  /\ prev.model.logits = <<"valid", "mismatch">>
  /\ prev.regex.candidates # <<>>
  /\ last.result = <<>>

C15_ChunksCoverSpanOfInterest ==
  ChunkCallDone =>
    LET chunks == last.chunks
        n == Len(last.chunks)
    IN /\ \A i \in 1..n : SpansOverlap(chunks[i], last.soi)
       /\ \A t \in TokensOf(last.soi) :
            Cardinality({i \in 1..n : t \in TokensOf(chunks[i])}) = 1
       /\ \A i \in 2..(n - 1) : TokensOf(chunks[i]) \subseteq TokensOf(last.soi)
       /\ \A i \in 1..(n - 1) : chunks[i][1] < chunks[i + 1][1]

\* A ModelChunk call on a span of interest of two tokens that returned two
\* chunks, the first of which starts before the span of interest.
C15_Witness ==
  /\ ChunkCallDone
  /\ TokenSpanSize(last.soi) = 2
  /\ Len(last.chunks) = 2
  /\ last.chunks[1][1] < last.soi[1]

\* C16: expanding a token span by l tokens on the left and r on the right
\* adds l + r to its size, a token span intersected with itself is itself,
\* and the span of a single token has size 1.
C16_SpanAlgebra ==
  /\ last.kind = "expand" =>
       TokenSpanSize(last.result)
         = TokenSpanSize(prev.token_span) + prev.num_tokens_left
             + prev.num_tokens_right
  /\ (last.kind = "intersect" /\ prev.token_span2 = prev.token_span) =>
       last.result = prev.token_span
  /\ last.kind = "single" => TokenSpanSize(last.result) = 1

\* A non-empty span has been expanded on both sides by different amounts.
C16_Witness ==
  /\ last.kind = "expand"
  /\ TokenSpanSize(prev.token_span) > 0
  /\ prev.num_tokens_left > 0
  /\ prev.num_tokens_right > prev.num_tokens_left

\* C17: a bounds-sensitive query for a non-empty span inside the extraction
\* span appends (before + inside_left + inside_right + after + [1 if bag])
\* * feature_vector_size + [1 if length] floats, a click-context query
\* appends (2 * context_size + 1) * feature_vector_size floats; both are the
\* length CalculateOutputFeaturesSize gives.
C17_FixedOutputLength ==
  LET fvs == NumFeaturesPerToken(ExampleMatrix)
  IN /\ last.kind = "bounds_features" =>
          LET c == prev.config
              size == (c.num_tokens_before + c.num_tokens_inside_left
                       + c.num_tokens_inside_right + c.num_tokens_after
                       + (IF c.include_inside_bag THEN 1 ELSE 0)) * fvs
                      + (IF c.include_inside_length THEN 1 ELSE 0)
          IN /\ Len(last.output_features) = size
             /\ size = CalculateOutputFeaturesSize(
                         [bounds_sensitive_enabled |-> TRUE,
                          bounds_sensitive_features |-> c,
                          context_size |-> 0], fvs)
     /\ last.kind = "click_features" =>
          /\ Len(last.output_features) = (2 * prev.context_size + 1) * fvs
          /\ Len(last.output_features)
               = CalculateOutputFeaturesSize(
                   [bounds_sensitive_enabled |-> FALSE,
                    bounds_sensitive_features |-> <<>>,
                    context_size |-> prev.context_size], fvs)

\* A bounds-sensitive query with bag and length whose one-token span sits
\* at the start of the extraction span, so that the tokens before it and
\* the second inside-left token are padding.
C17_Witness ==
  /\ last.kind = "bounds_features"
  /\ prev.config.include_inside_bag
  /\ prev.config.include_inside_length
  /\ prev.config.num_tokens_before = MaxWindow
  /\ prev.config.num_tokens_inside_left = MaxWindow
  /\ prev.span = <<ExampleMatrix.extraction_span[1],
                   ExampleMatrix.extraction_span[1] + 1>>

\* The sections the enabled modes of a model need.
RequiredSections(model) ==
  (IF model.enabled_modes \cap {"annotation", "selection"} # {}
   THEN SelectionSections ELSE {})
  \cup (IF model.enabled_modes # {}
        THEN ClassificationSections \cup {"embedding_model"} ELSE {})

\* C18: a factory returns a classifier only when ValidateAndInitialize left
\* initialized_ true; it returns null when the model does not verify, when
\* a section required by an enabled mode is missing, when the embedding
\* executor of an enabled mode is not ready, and when the datetime model is
\* there but its parser cannot be built.
C18_ConstructionAllOrNothing ==
  last.kind = "create" =>
    /\ last.classifier # "nullptr" => last.initialized
    /\ ( \/ ~prev.verifies
         \/ ~(RequiredSections(prev.model) \subseteq prev.model.sections)
         \/ (prev.model.enabled_modes # {} /\ ~prev.model.embedding_ready)
         \/ prev.model.datetime_model = "parser_not_built" )
       => last.classifier = "nullptr"

\* A file that maps and verifies, with every mode enabled and every section
\* there, whose embedding executor is not ready: no classifier.
C18_Witness ==
  /\ last.kind = "create"
  /\ prev.mmap_ok /\ prev.verifies
  /\ prev.model.enabled_modes = ModeFlags
  /\ RequiredSections(prev.model) \subseteq prev.model.sections
  /\ prev.model.embedding_matches
  /\ ~prev.model.embedding_ready
  /\ prev.model.datetime_model = "parser_built"
  /\ last.classifier = "nullptr"

ParseAdded == {prev.found_spans[last.added[k]].span : k \in 1..Len(last.added)}

\* C19: the spans one Parse call adds to results are pairwise
\* non-overlapping, and a found span is left out only if it overlaps an
\* added span that is at least as long.
C19_ParseKeepsLongerSpans ==
  (last.kind = "parse" /\ last.ok) =>
    /\ \A i, j \in 1..Len(last.added) :
         i # j => ~SpansOverlap(prev.found_spans[last.added[i]].span,
                                prev.found_spans[last.added[j]].span)
    /\ \A k \in 1..Len(prev.found_spans) :
         k \notin Range(last.added) =>
           \E kept \in ParseAdded :
              /\ SpansOverlap(prev.found_spans[k].span, kept)
              /\ TokenSpanSize(kept) >= TokenSpanSize(prev.found_spans[k].span)

\* A Parse call that found a span and two shorter spans inside it, and added
\* the long one only.
C19_Witness ==
  /\ last.kind = "parse" /\ last.ok
  /\ Len(prev.found_spans) = 3
  /\ Len(last.added) = 1
  /\ \A k \in 1..3 :
       k # last.added[1] =>
         /\ TokenSpanSize(prev.found_spans[k].span) > 0
         /\ TokenSpanSize(prev.found_spans[k].span)
              < TokenSpanSize(prev.found_spans[last.added[1]].span)
  /\ last.added[1] = 3

\* The sum over the matrix rows of the tokens of span (relative to the
\* extraction span) in column j.
RECURSIVE ColumnSum(_, _, _)
ColumnSum(cf, span, j) ==
  IF span[1] >= span[2] THEN 0
  ELSE cf.features[span[1] * NumFeaturesPerToken(cf) + j]
       + ColumnSum(cf, <<span[1] + 1, span[2]>>, j)

\* C20: with include_inside_bag, the bag row a bounds-sensitive query
\* appends is, in every feature column, the sum of the matrix rows of the
\* tokens inside selected_span divided by the length of selected_span.
C20_BagIsMeanOfRows ==
  (last.kind = "bounds_features" /\ prev.config.include_inside_bag) =>
    LET n == NumFeaturesPerToken(ExampleMatrix)
        c == prev.config
        offset == (c.num_tokens_before + c.num_tokens_inside_left
                   + c.num_tokens_inside_right + c.num_tokens_after) * n
        selected_span == <<prev.span[1] - ExampleMatrix.extraction_span[1],
                           prev.span[2] - ExampleMatrix.extraction_span[1]>>
    IN \A j \in 1..n :
         last.output_features[offset + j] * TokenSpanSize(selected_span)
           = ColumnSum(ExampleMatrix, selected_span, j)

\* A query with the bag for a span of three tokens.
C20_Witness ==
  /\ last.kind = "bounds_features"
  /\ prev.config.include_inside_bag
  /\ TokenSpanSize(prev.span) = 3
  /\ prev.config.num_tokens_before = 1
  /\ prev.config.num_tokens_after = 0

\* The row the matrix holds for relative position p.
MatrixRow(cf, p) ==
  SubSeq(cf.features, p * NumFeaturesPerToken(cf) + 1,
         (p + 1) * NumFeaturesPerToken(cf))

\* The k-th row (from 0) of a query output.
OutputRow(cf, output_features, k) ==
  SubSeq(output_features, k * NumFeaturesPerToken(cf) + 1,
         (k + 1) * NumFeaturesPerToken(cf))

\* C21: in a bounds-sensitive query the left window
\* [first - before, first + inside_left) emits, in position order, the matrix
\* row of position p when 0 <= p < selected.second and the padding row
\* otherwise; the right window [second - inside_right, second + after) emits
\* the matrix row of p when selected.first <= p < extraction length and the
\* padding row otherwise.
C21_ReadMasks ==
  last.kind = "bounds_features" =>
    LET cf == ExampleMatrix
        c == prev.config
        first == prev.span[1] - cf.extraction_span[1]
        second == prev.span[2] - cf.extraction_span[1]
        left == c.num_tokens_before + c.num_tokens_inside_left
        right == c.num_tokens_inside_right + c.num_tokens_after
    IN /\ \A k \in 0..(left - 1) :
            LET p == first - c.num_tokens_before + k
            IN OutputRow(cf, last.output_features, k)
                 = IF 0 <= p /\ p < second
                   THEN MatrixRow(cf, p) ELSE cf.padding_features
       /\ \A k \in 0..(right - 1) :
            LET p == second - c.num_tokens_inside_right + k
            IN OutputRow(cf, last.output_features, left + k)
                 = IF first <= p /\ p < TokenSpanSize(cf.extraction_span)
                   THEN MatrixRow(cf, p) ELSE cf.padding_features

\* A query for a one-token span in the middle of the extraction span whose
\* inside windows reach past the other bound: the left window pads the
\* position of the right bound and the right window pads the position before
\* the left bound, though the matrix has rows for both.
C21_Witness ==
  /\ last.kind = "bounds_features"
  /\ prev.span = <<ExampleMatrix.extraction_span[1] + 2,
                   ExampleMatrix.extraction_span[1] + 3>>
  /\ prev.config.num_tokens_inside_left = 2
  /\ prev.config.num_tokens_inside_right = 2
  /\ prev.config.num_tokens_before = 1
  /\ prev.config.num_tokens_after = 1
  /\ OutputRow(ExampleMatrix, last.output_features, 2)
       = ExampleMatrix.padding_features
  /\ OutputRow(ExampleMatrix, last.output_features, 3)
       = ExampleMatrix.padding_features

\* C22: the bounds-sensitive scorer scores exactly the token spans that lie
\* in the inference span (the span of interest expanded by max_selection_span
\* on each side and clipped to the text), share a token with the span of
\* interest and have a length from 1 to max_chunk_length (max_selection_span
\* + 1 with the reduced output space, 2 * max_selection_span + 1 without),
\* each once.
C22_CandidateEnumeration ==
  (ChunkCallDone /\ opts.bounds_sensitive) =>
    LET mss == opts.max_selection_span
        inference == <<Max(last.soi[1] - mss, 0),
                       Min(last.soi[2] + mss, opts.num_tokens)>>
        longest == IF opts.reduced THEN mss + 1 ELSE 2 * mss + 1
        stated == {c \in (0..opts.num_tokens) \X (0..opts.num_tokens) :
                     /\ inference[1] <= c[1] /\ c[2] <= inference[2]
                     /\ TokensOf(c) \cap TokensOf(last.soi) # {}
                     /\ 1 <= c[2] - c[1] /\ c[2] - c[1] <= longest}
    IN /\ Range(last.enumerated) = stated
       /\ \A i, j \in 1..Len(last.enumerated) :
            i # j => last.enumerated[i] # last.enumerated[j]
       /\ DOMAIN last.scored = stated

\* A call with the reduced output space on a text of three tokens whose
\* span of interest is the middle token: the span of all three tokens lies
\* in the inference span and overlaps the span of interest but is too long.
C22_Witness ==
  /\ ChunkCallDone /\ opts.bounds_sensitive /\ opts.reduced
  /\ opts.num_tokens = 3
  /\ last.soi = <<1, 2>>
  /\ <<0, 3>> \notin Range(last.enumerated)
  /\ <<0, 2>> \in Range(last.enumerated)
  /\ Len(last.enumerated) = 3

\* C23: a candidate ModelChunk does not return shares a token with a
\* returned candidate whose score is at least its own; a candidate whose
\* score is strictly greater than that of every candidate overlapping it is
\* returned.
C23_RejectedOnlyByBetterChunk ==
  ChunkCallDone =>
    /\ \A c \in DOMAIN last.scored :
         c \notin Range(last.chunks) =>
           \E k \in Range(last.chunks) :
              /\ TokensOf(c) \cap TokensOf(k) # {}
              /\ last.scored[k] >= last.scored[c]
    /\ \A c \in DOMAIN last.scored :
         (\A d \in DOMAIN last.scored :
             (d # c /\ SpansOverlap(c, d)) => last.scored[d] < last.scored[c])
           => c \in Range(last.chunks)

\* A call in which a span of two tokens scored strictly above every
\* candidate overlapping it was returned, and a single token inside it,
\* scored lower, was not.
C23_Witness ==
  /\ ChunkCallDone
  /\ \E c \in Range(last.chunks) :
       /\ TokenSpanSize(c) = 2
       /\ \A d \in DOMAIN last.scored :
            (d # c /\ SpansOverlap(c, d)) => last.scored[d] < last.scored[c]
       /\ \E d \in DOMAIN last.scored :
            /\ TokenSpanSize(d) = 1
            /\ SpansOverlap(c, d)
            /\ d \notin Range(last.chunks)

\* C24 as stated: members of equal priority are considered in candidate
\* order, so of two overlapping candidates with equal priority the first of
\* the list is the one accepted.
C24_EqualPriorityFirstWins ==
  (TwoOverlapping /\ last.ok
     /\ ConflictScores(last.candidates, 1, 3)[1]
          = ConflictScores(last.candidates, 1, 3)[2])
    => last.result = <<1>>

\* The cluster (by its place in the list of clusters) candidate i is in.
ClusterOf(i) ==
  CHOOSE k \in 1..Len(ClustersFrom(last.candidates, 1)) :
     /\ ClustersFrom(last.candidates, 1)[k][1] <= i
     /\ i < ClustersFrom(last.candidates, 1)[k][2]

\* C25 as stated: the clusters ResolveConflicts forms are contiguous runs
\* that partition the candidates, a candidate joins the current cluster
\* exactly when its span overlaps a span already in it, and spans of
\* different clusters never overlap.
C25_ClustersPartitionByOverlap ==
  Resolved =>
    LET clusters == ClustersFrom(last.candidates, 1)
        n == Len(last.candidates)
    IN /\ \A i \in 1..n :
            Cardinality({k \in 1..Len(clusters) :
                           clusters[k][1] <= i /\ i < clusters[k][2]}) = 1
       /\ \A k \in 1..Len(clusters) :
            \A i \in (clusters[k][1] + 1)..(clusters[k][2] - 1) :
               \E j \in clusters[k][1]..(i - 1) : SpansOverlap(SpanOf(i), SpanOf(j))
       /\ \A i, j \in 1..n :
            ClusterOf(i) # ClusterOf(j) => ~SpansOverlap(SpanOf(i), SpanOf(j))

\* The same with the empty spans left out of the candidate lists.
C25_HoldsWithoutEmptySpans ==
  (Resolved /\ \A i \in 1..Len(last.candidates) : SpanOf(i)[1] < SpanOf(i)[2])
    => C25_ClustersPartitionByOverlap

\* C26 as stated: a member of a conflict cluster is rejected only if its
\* span overlaps a member that was accepted, so every candidate
\* ResolveConflicts leaves out overlaps a candidate it returns, and a member
\* with the highest priority of its cluster is returned.
C26_RejectedOverlapsAccepted ==
  (Resolved /\ last.ok) =>
    LET clusters == ClustersFrom(last.candidates, 1)
    IN /\ \A i \in 1..Len(last.candidates) :
            i \notin Range(last.result) =>
              \E j \in Range(last.result) : SpansOverlap(SpanOf(i), SpanOf(j))
       /\ \A k \in 1..Len(clusters) :
            LET scores == ConflictScores(last.candidates, clusters[k][1],
                                         clusters[k][2])
            IN \E i \in Range(last.result) \cap DOMAIN scores :
                  \A j \in DOMAIN scores : scores[j] <= scores[i]

\* The same with the empty spans left out of the candidate lists.
C26_HoldsWithoutEmptySpans ==
  (Resolved /\ \A i \in 1..Len(last.candidates) : SpanOf(i)[1] < SpanOf(i)[2])
    => C26_RejectedOverlapsAccepted

\* C27: in SuggestSelection and Annotate every click position and candidate
\* span passed to a query of the feature matrix lies in the extraction span
\* the matrix was built for, every row range copied and every bag row read
\* lies in the matrix, and every index into token_used lies in
\* [0, size of the inference span).
C27_ChunkingIndexSafety ==
  last.kind = "queries" =>
    LET extraction == last.extraction_span
        size == TokenSpanSize(last.extraction_span)
    IN /\ \A p \in last.clicks : extraction[1] <= p /\ p < extraction[2]
       /\ \A c \in last.spans : extraction[1] <= c[1] /\ c[2] <= extraction[2]
       /\ \A r \in last.copied : 0 <= r[1] /\ r[1] <= r[2] /\ r[2] <= size
       /\ \A i \in last.bag_rows : 0 <= i /\ i < size
       /\ \A i \in last.token_used :
            0 <= i /\ i < TokenSpanSize(last.inference_span)

\* A suggestion on the last of three tokens, bounds-sensitive with the bag:
\* the extraction span is cut at the end of the text, and a candidate that
\* reaches back max_selection_span tokens before the symmetry context span
\* was passed to the query.
C27_Witness ==
  /\ last.kind = "queries"
  /\ prev.kind = "suggest_args"
  /\ opts.bounds_sensitive
  /\ opts.bounds_sensitive_features.include_inside_bag
  /\ opts.bounds_sensitive_features.num_tokens_after = MaxWindow
  /\ opts.num_tokens = 3 /\ prev.click_pos = 2 /\ opts.symmetry = 0
  /\ last.extraction_span[2] = 3
  /\ <<1, 3>> \in last.spans
  /\ last.bag_rows # {}

\* C28 as stated: on an initialized classifier that has no datetime parser,
\* SuggestSelection and Annotate return, and no candidate of theirs comes
\* from the datetime source.
C28_NoParserNoDatetimeCandidates ==
  /\ (SuggestDone /\ prev.initialized /\ ~prev.has_datetime_parser) =>
       /\ last.returned
       /\ \A i \in 1..Len(last.candidates) :
            last.candidates[i].classification # <<Date>>
  /\ (AnnotateDone /\ ~prev.has_datetime_parser) =>
       /\ last.returned
       /\ \A i \in 1..Len(last.candidates) :
            last.candidates[i].classification # <<Date>>

\* C29 as stated: when the model has a regex section without patterns, so
\* that InitializeRegexModel fails, the classifier is left not initialized
\* and the factory returns null.
C29_RegexFailureGivesNull ==
  (last.kind = "create" /\ prev.model.regex_model = "no_patterns") =>
    /\ ~last.initialized
    /\ last.classifier = "nullptr"

\* C30 as stated: when ResolveConflict sorts the members of a conflict
\* cluster, every member is ranked by a priority score derived from a
\* classification, the one it carries or a non-empty one the classifier
\* gave for its span; no member is ranked by the default value of the
\* scores map.
C30_MembersRankedByClassification ==
  (Resolved /\ last.ok) =>
    LET clusters == ClustersFrom(last.candidates, 1)
    IN \A k \in 1..Len(clusters) :
         clusters[k][2] - clusters[k][1] > 1 =>
           \A i \in clusters[k][1]..(clusters[k][2] - 1) :
              /\ RankedBy(last.candidates[i]) # <<>>
              /\ ConflictScores(last.candidates, clusters[k][1], clusters[k][2])[i]
                   = GetPriorityScore(RankedBy(last.candidates[i]))

====
